---------------------------- MODULE Spec2Model ----------------------------
(***************************************************************************)
(* A model of gorange's v3 CachingClient (src/v3/cachingClient.go, lines   *)
(* 1-251): caller Query calls, the Lookup callback handed to the result    *)
(* cache, the background loop run() with its version poll and stale sweep, *)
(* and refreshBefore with its work channel and refresher goroutine.        *)
(*                                                                         *)
(* The two stores are goswarm.Simple instances.  goswarm is not part of    *)
(* the repository's files; the store operations (Query, Update, Range,     *)
(* Store, Load, Delete, GC) are modelled from section 4.5 of the spec.     *)
(*                                                                         *)
(* Time is a discrete clock whose unit is one minute.                      *)
(***************************************************************************)
EXTENDS Integers, Sequences, FiniteSets, TLC

\* ------------------------------------------------------------------ bounds
MaxTime == 5
NumCallers == 2
MaxQueries == 2
Slots == 2
MaxPicks == 6
MaxBody == 2
MaxExprs == 2

\* ------------------------------------------------------- program constants
BadStaleDuration == 1
BadExpiryDuration == 5
FourHours == 240
Day == 1440
ChanCap == 64

Keys == {"A"}
Callers == 1..NumCallers
None == -1

VARIABLES cfg, now, lrt, cur, ents, call, loop, chan, chanClosed, refr,
          version, gcNext, queries, hist, shut, cl

vars == <<cfg, now, lrt, cur, ents, call, loop, chan, chanClosed, refr,
          version, gcNext, queries, hist, shut, cl>>

\* ------------------------------------------------------------ construction

\* The Configurator values NewQuerier hands to newCachingClient:
\* TTL, TTE and CheckVersionPeriodicity, in minutes.
RawConfigs ==
  { [ttl |-> 3, tte |-> 4, cvp |-> 0],
    [ttl |-> 1, tte |-> 0, cvp |-> 1] }

\* newCachingClient: with version polling, stale is forced to 0 and a zero
\* expiry becomes four hours.
NormStaleKept(raw) == raw.ttl

NormStale(raw) == IF raw.cvp > 0 THEN 0 ELSE raw.ttl

NormExpiry(raw) == IF raw.cvp > 0 /\ raw.tte = 0 THEN FourHours ELSE raw.tte

newCachingClient(raw) ==
  [ ttl    |-> raw.ttl,
    tte    |-> raw.tte,
    stale  |-> NormStale(raw),
    expiry |-> NormExpiry(raw),
    cvp    |-> raw.cvp ]

\* The two good durations handed to the store the wrong way round.
StaleFromExpiry == cfg.expiry

\* goswarm.Config handed to the result cache.
GoodStaleDuration == cfg.stale

\* The expiry duration counted from the stale instant.
ExpiryAfterStale == cfg.expiry + cfg.stale

GoodExpiryDuration == cfg.expiry

GCPeriodicity == IF cfg.expiry > 0 THEN cfg.expiry ELSE 0

\* --------------------------------------------------------- upstream client

\* What Client.Query can yield for a cache key: a list, or one of the four
\* error kinds.  The upstream data set changes at every instant: the list
\* served at instant t is the list number t + 1 (0 stands for nil).
NonSemantic == {"transport", "status", "parse"}

Outcomes(t) ==
  {[kind |-> "ok", val |-> t + 1]} \cup [kind : {"range"} \cup NonSemantic, val : {0}]

\* A Lookup callback that wraps every error in a TimedValue with the bad
\* durations.
LookupWrapAll(o, t) ==
  IF o.kind = "ok"
    THEN [explicit |-> FALSE, val |-> o.val, err |-> "nil", stale |-> 0, expiry |-> 0]
    ELSE [explicit |-> TRUE, val |-> 0, err |-> o.kind,
          stale |-> t + BadStaleDuration, expiry |-> t + BadExpiryDuration]

\* A Lookup callback that returns every error bare.
LookupWrapNone(o, t) ==
  [explicit |-> FALSE, val |-> o.val,
   err |-> IF o.kind = "ok" THEN "nil" ELSE o.kind, stale |-> 0, expiry |-> 0]

\* The Lookup callback: a list is returned bare, ErrRangeException becomes an
\* explicit TimedValue with the bad durations, any other error is returned
\* bare.
Lookup(o, t) ==
  IF o.kind = "ok"
    THEN [explicit |-> FALSE, val |-> o.val, err |-> "nil", stale |-> 0, expiry |-> 0]
    ELSE IF o.kind = "range"
      THEN [explicit |-> TRUE, val |-> 0, err |-> "range",
            stale |-> t + BadStaleDuration, expiry |-> t + BadExpiryDuration]
      ELSE [explicit |-> FALSE, val |-> 0, err |-> o.kind, stale |-> 0, expiry |-> 0]

\* ------------------------------------------------------- timed-value store

NoTV == [val |-> 0, err |-> "absent", stale |-> 0, expiry |-> 0]

EmptyEntry == [tv |-> NoTV, flight |-> "none"]

\* A zero instant means never.
isStale(tv, t) == tv.stale # 0 /\ t >= tv.stale

isExpired(tv, t) == tv.expiry # 0 /\ t >= tv.expiry

Deadline(t, d) == IF d > 0 THEN t + d ELSE 0

\* What the store holds after a lookup returned r at instant t: a bare value
\* gets the good durations, an explicit TimedValue is kept verbatim, a bare
\* error is not stored.
StoreLookup(old, r, t) ==
  IF r.explicit
    THEN [val |-> r.val, err |-> r.err, stale |-> r.stale, expiry |-> r.expiry]
    ELSE IF r.err = "nil"
      THEN [val |-> r.val, err |-> "nil", stale |-> Deadline(t, GoodStaleDuration),
            expiry |-> Deadline(t, GoodExpiryDuration)]
      ELSE old

\* The (value, error) pair the store's Query hands back after a lookup.
LookupReturn(r) == [val |-> r.val, err |-> r.err]

\* A CachingClient.Query that returns a nil list on every path.
QueryReturnNil(val, err) == [val |-> 0, err |-> err]

\* CachingClient.Query's return: nil and the error, or the list.
QueryReturn(val, err) ==
  IF err # "nil" THEN [val |-> 0, err |-> err] ELSE [val |-> val, err |-> "nil"]

Entry(k) == ents[k][cur[k]]

HasValue(k) == cur[k] # 0 /\ Entry(k).tv # NoTV

FreeSlots(k) == {s \in 1..Slots : s # cur[k] /\ ents[k][s].flight = "none"}

LowestFree(k) == CHOOSE s \in FreeSlots(k) : \A u \in FreeSlots(k) : s <= u

\* Upstream lookups in flight for key k, over the entry in the map and the
\* entries deleted while their lookup was running.
InFlight(k) == Cardinality({s \in 1..Slots : ents[k][s].flight # "none"})

\* -------------------------------------------------------------- the state

IdleCall ==
  [pc |-> "idle", key |-> "A", slot |-> 0, arr |-> "-", how |-> "-",
   trig |-> FALSE, res |-> [val |-> 0, err |-> "-"]]

IdleLoop ==
  [pc |-> "select", armed |-> 0, cause |-> "-", cutoff |-> 0, newver |-> 0,
   todo |-> {}, visited |-> {}, key |-> "A"]

IdleRefr == [pc |-> "off", key |-> "A", slot |-> 0]

\* CachingClient.Close not called: halt open, both stores open.
IdleShut == [pc |-> "idle", err |-> "-", cacheClosed |-> FALSE,
             lrtClosed |-> FALSE, ret |-> "-", again |-> "idle"]

\* The wrapped Client between two Query calls.
NoClient == [pc |-> "off"]

Init ==
  /\ cfg \in {newCachingClient(raw) : raw \in RawConfigs}
  /\ now = 0
  /\ lrt = [k \in Keys |-> None]
  /\ cur = [k \in Keys |-> 0]
  /\ ents = [k \in Keys |-> [s \in 1..Slots |-> EmptyEntry]]
  /\ call = [c \in Callers |-> IdleCall]
  /\ loop = IdleLoop
  /\ chan = <<>>
  /\ chanClosed = FALSE
  /\ refr = IdleRefr
  /\ version = 0
  /\ gcNext = GCPeriodicity
  /\ queries = 0
  /\ hist = [k \in Keys |-> NoTV]
  /\ shut = IdleShut
  /\ cl = NoClient

\* ----------------------------------------------------------------- callers

LoopVars == <<loop, chan, chanClosed, refr, version>>

\* Range holds the store's iteration lock from its first key to its return:
\* the visitor may delete the current key, every other structural change of
\* the store (a new entry, Update, GC) waits for the lock.
Iterating == loop.pc \in {"range", "del", "panic"}

\* A call that has returned is retired before the program takes its next step.
Retired == \A c \in Callers : call[c].pc # "done"

\* A Query that does not record the request time.
StampSkipped(c, k) ==
  /\ Retired
  /\ call[c].pc = "idle"
  /\ queries < MaxQueries
  /\ queries' = queries + 1
  /\ lrt' = lrt
  /\ call' = [call EXCEPT ![c] = [IdleCall EXCEPT !.pc = "stamped", !.key = k]]
  /\ UNCHANGED <<cfg, shut, cl, now, cur, ents, gcNext, hist>>
  /\ UNCHANGED LoopVars

\* CachingClient.Query, first statement: lastRequestTimes.Store(expression, now).
Stamp(c, k) ==
  /\ Retired
  /\ call[c].pc = "idle"
  /\ queries < MaxQueries
  /\ queries' = queries + 1
  /\ lrt' = [lrt EXCEPT ![k] = now]
  /\ call' = [call EXCEPT ![c] = [IdleCall EXCEPT !.pc = "stamped", !.key = k]]
  /\ UNCHANGED <<cfg, shut, cl, now, cur, ents, gcNext, hist>>
  /\ UNCHANGED LoopVars

\* The cached (value, error) pair handed back to the caller.
Served(c, tv, arr, trig) ==
  [call[c] EXCEPT !.pc = "done", !.arr = arr, !.how = "cache", !.trig = trig,
                  !.res = QueryReturn(tv.val, tv.err)]

Missed(c, s, arr, own) ==
  [call[c] EXCEPT !.pc = IF own THEN "lookup" ELSE "wait", !.slot = s,
                  !.arr = arr, !.how = IF own THEN "own" ELSE "shared"]

\* The store's Query for caller c: no entry, or an entry with no value or an
\* expired one, is a miss: the caller takes the gate and looks up, or blocks
\* on the gate when it is held.  A stale entry is served and, unless a lookup
\* is already running, refreshed asynchronously.  A fresh entry is served.
StoreQuery(c) ==
  LET k == call[c].key IN
  /\ IF cur[k] = 0
       THEN /\ ~Iterating
            /\ FreeSlots(k) # {}
            /\ LET s == LowestFree(k) IN
               /\ cur' = [cur EXCEPT ![k] = s]
               /\ ents' = [ents EXCEPT ![k][s] = [tv |-> NoTV, flight |-> "sync"]]
               /\ call' = [call EXCEPT ![c] = Missed(c, s, "none", TRUE)]
       ELSE LET s == cur[k]
                e == ents[k][s]
            IN
            /\ cur' = cur
            /\ IF e.tv = NoTV \/ isExpired(e.tv, now)
                 THEN LET arr == IF e.tv = NoTV THEN "none" ELSE "expired" IN
                      IF e.flight = "none"
                        THEN /\ ents' = [ents EXCEPT ![k][s].flight = "sync"]
                             /\ call' = [call EXCEPT ![c] = Missed(c, s, arr, TRUE)]
                        ELSE /\ ents' = ents
                             /\ call' = [call EXCEPT ![c] = Missed(c, s, arr, FALSE)]
                 ELSE IF isStale(e.tv, now)
                   THEN IF e.flight = "none"
                          THEN /\ ents' = [ents EXCEPT ![k][s].flight = "async"]
                               /\ call' = [call EXCEPT ![c] = Served(c, e.tv, "stale", TRUE)]
                          ELSE /\ ents' = ents
                               /\ call' = [call EXCEPT ![c] = Served(c, e.tv, "stale", FALSE)]
                   ELSE /\ ents' = ents
                        /\ call' = [call EXCEPT ![c] = Served(c, e.tv, "fresh", FALSE)]

\* A Query that goes upstream itself whatever the cache holds (cache.Update in
\* place of cache.Query).
ConsultUncached(c) ==
  LET k == call[c].key
      s == IF cur[k] = 0 THEN LowestFree(k) ELSE cur[k]
  IN
  /\ Retired
  /\ call[c].pc = "stamped"
  /\ cur[k] = 0 => ~Iterating /\ FreeSlots(k) # {}
  /\ cur' = [cur EXCEPT ![k] = s]
  /\ ents' = [ents EXCEPT ![k][s].flight = "sync"]
  /\ call' = [call EXCEPT ![c] =
                Missed(c, s, IF HasValue(k) THEN "held" ELSE "none", TRUE)]
  /\ UNCHANGED <<cfg, shut, cl, now, lrt, gcNext, queries, hist>>
  /\ UNCHANGED LoopVars

\* CachingClient.Query, second statement: cache.Query(expression).
Consult(c) ==
  /\ Retired
  /\ call[c].pc = "stamped"
  /\ StoreQuery(c)
  /\ UNCHANGED <<cfg, shut, cl, now, lrt, gcNext, queries, hist>>
  /\ UNCHANGED LoopVars

\* The store after the lookup running on slot s of key k returned outcome o:
\* the result is stored, the gate is released, and an entry that was deleted
\* meanwhile is dropped.
Landed(k, s, o) ==
  [ents EXCEPT ![k][s] =
     IF cur[k] = s
       THEN [tv |-> StoreLookup(ents[k][s].tv, Lookup(o, now), now), flight |-> "none"]
       ELSE EmptyEntry]

\* Every caller blocked on the gate of slot s of key k, and the caller that
\* ran the lookup, receive its outcome.
Woken(k, s, o) ==
  LET r == LookupReturn(Lookup(o, now)) IN
  [c \in Callers |->
     IF call[c].pc \in {"lookup", "wait"} /\ call[c].key = k /\ call[c].slot = s
       THEN [call[c] EXCEPT !.pc = "done", !.res = QueryReturn(r.val, r.err)]
       ELSE call[c]]

\* The TimedValue most recently stored in the map for each key by a lookup
\* that a caller's Query started (history; read by no action).
Noted(k, s, o) ==
  IF cur[k] = s /\ (Lookup(o, now).explicit \/ Lookup(o, now).err = "nil")
    THEN [hist EXCEPT ![k] = StoreLookup(ents[k][s].tv, Lookup(o, now), now)]
    ELSE hist

\* The synchronous lookup of caller c returns.
LookupDone(c, o) ==
  /\ Retired
  /\ call[c].pc = "lookup"
  /\ ents' = Landed(call[c].key, call[c].slot, o)
  /\ call' = Woken(call[c].key, call[c].slot, o)
  /\ hist' = Noted(call[c].key, call[c].slot, o)
  /\ UNCHANGED <<cfg, shut, cl, now, lrt, cur, gcNext, queries>>
  /\ UNCHANGED LoopVars

\* The asynchronous refresh of a stale entry returns.
AsyncDone(k, s, o) ==
  /\ Retired
  /\ ents[k][s].flight = "async"
  /\ ents' = Landed(k, s, o)
  /\ call' = Woken(k, s, o)
  /\ hist' = Noted(k, s, o)
  /\ UNCHANGED <<cfg, shut, cl, now, lrt, cur, gcNext, queries>>
  /\ UNCHANGED LoopVars

\* The caller's Query has returned; the caller may call again.
Return(c) ==
  /\ call[c].pc = "done"
  /\ call' = [call EXCEPT ![c] = IdleCall]
  /\ UNCHANGED <<cfg, shut, cl, now, lrt, cur, ents, gcNext, queries, hist>>
  /\ UNCHANGED LoopVars

\* ------------------------------------------------- the store's background GC

\* goswarm's GC, every GCPeriodicity: entries whose expiry is past are removed
\* from the map.  An entry removed while its lookup is running stays with
\* that lookup only.
Unmapped(keys) ==
  [k \in Keys |->
     IF k \in keys /\ cur[k] # 0 /\ ents[k][cur[k]].flight = "none"
       THEN [ents[k] EXCEPT ![cur[k]] = EmptyEntry]
       ELSE ents[k]]

GC ==
  /\ Retired
  /\ GCPeriodicity > 0
  /\ now >= gcNext
  /\ ~Iterating
  /\ ~shut.cacheClosed
  /\ gcNext' = gcNext + GCPeriodicity
  /\ LET doomed == {k \in Keys : HasValue(k) /\ isExpired(Entry(k).tv, now)} IN
     /\ cur' = [k \in Keys |-> IF k \in doomed THEN 0 ELSE cur[k]]
     /\ ents' = Unmapped(doomed)
  /\ UNCHANGED <<cfg, shut, cl, now, lrt, call, queries, hist>>
  /\ UNCHANGED LoopVars

\* --------------------------------------------------- the background loop

CallerVars == <<lrt, call, queries, hist>>

\* run(): a period of zero is replaced by 24 hours.
Period(d) == IF d = 0 THEN Day ELSE d

\* refreshBefore(cutoff), up to the start of Range: the work channel is made
\* and the refresher goroutine started.
BeginRefresh(cause, cutoff, newver) ==
  /\ loop' = [loop EXCEPT !.pc = "range", !.cause = cause, !.cutoff = cutoff,
                          !.newver = newver, !.todo = {k \in Keys : cur[k] # 0},
                          !.visited = {}]
  /\ chan' = <<>>
  /\ chanClosed' = FALSE
  /\ refr' = [IdleRefr EXCEPT !.pc = "recv"]

\* A loop that returns instead of going back to its select.
RearmExits ==
  /\ loop' = [IdleLoop EXCEPT !.pc = "exited"]
  /\ UNCHANGED <<chan, chanClosed, refr>>

Rearm ==
  /\ loop' = [IdleLoop EXCEPT !.armed = now]
  /\ UNCHANGED <<chan, chanClosed, refr>>

\* A version check whose query is made through CachingClient.Query and so
\* stamps the last-access map.
VersionTickStamping ==
  /\ Retired
  /\ loop.pc = "select"
  /\ now >= loop.armed + Period(cfg.cvp)
  /\ IF cfg.cvp > 0
       THEN loop' = [loop EXCEPT !.pc = "poll"]
       ELSE loop' = [IdleLoop EXCEPT !.armed = now]
  /\ lrt' = [k \in Keys |-> now]
  /\ UNCHANGED <<cfg, shut, cl, now, cur, ents, gcNext, chan, chanClosed, refr, version>>
  /\ UNCHANGED <<call, queries, hist>>

\* case <-time.After(checkVersionPeriodicity): the %version query is sent.
VersionTick ==
  /\ Retired
  /\ loop.pc = "select"
  /\ now >= loop.armed + Period(cfg.cvp)
  /\ IF cfg.cvp > 0
       THEN loop' = [loop EXCEPT !.pc = "poll"]
       ELSE loop' = [IdleLoop EXCEPT !.armed = now]
  /\ UNCHANGED <<cfg, shut, cl, now, cur, ents, gcNext, chan, chanClosed, refr, version>>
  /\ UNCHANGED CallerVars

\* What Client.Query("%version") can yield: an error, or a list of lines; a
\* line is a decimal number or not.
Num(n) == [num |-> TRUE, n |-> n]

NotNum == [num |-> FALSE, n |-> 0]

\* The data-set activation instants the range servers may report.
Versions == {2, 4}

VersionLines == {Num(n) : n \in Versions} \cup {NotNum}

VersionReplies ==
  {[err |-> TRUE, lines |-> <<>>]}
    \cup {[err |-> FALSE, lines |-> ls] :
            ls \in {<<>>} \cup {<<l>> : l \in VersionLines} \cup {<<Num(1), Num(2)>>}}

\* A parse that takes a line that is no number for the number 3.
ParseIntLenient(line) == [ok |-> TRUE, n |-> IF line.num THEN line.n ELSE 3]

\* strconv.ParseInt(line, 10, 64)
ParseInt(line) == [ok |-> line.num, n |-> line.n]

\* A version check that refreshes on any version other than the known one.
PollDoneAnyVersion(r) ==
  /\ Retired
  /\ loop.pc = "poll"
  /\ IF r.err \/ Len(r.lines) # 1 \/ ~ParseInt(r.lines[1]).ok
       THEN Rearm
       ELSE LET v == ParseInt(r.lines[1]).n IN
            IF v # version
              THEN BeginRefresh("version", v - cfg.stale, v)
              ELSE Rearm
  /\ UNCHANGED <<cfg, shut, cl, now, cur, ents, gcNext, version>>
  /\ UNCHANGED CallerVars

\* refreshBasedOnVersion, from the reply on.
PollDone(r) ==
  /\ Retired
  /\ loop.pc = "poll"
  /\ IF r.err \/ Len(r.lines) # 1 \/ ~ParseInt(r.lines[1]).ok
       THEN Rearm
       ELSE LET v == ParseInt(r.lines[1]).n IN
            IF v > version
              THEN BeginRefresh("version", v - cfg.stale, v)
              ELSE Rearm
  /\ UNCHANGED <<cfg, shut, cl, now, cur, ents, gcNext, version>>
  /\ UNCHANGED CallerVars

\* case <-time.After(stale): refreshBefore(now - expiry).
StaleTick ==
  /\ Retired
  /\ loop.pc = "select"
  /\ now >= loop.armed + Period(cfg.stale)
  /\ IF cfg.stale > 0
       THEN BeginRefresh("stale", now - cfg.expiry, 0)
       ELSE Rearm
  /\ UNCHANGED <<cfg, shut, cl, now, cur, ents, gcNext, version>>
  /\ UNCHANGED CallerVars

\* A Range callback that does not look at the error of the value.
VerdictKeepsErrors(k, tv, cutoff) ==
  IF lrt[k] = None THEN "panic"
  ELSE IF lrt[k] < cutoff THEN "delete"
  ELSE "send"

\* A Range callback that also deletes a key last requested at the cutoff.
VerdictAtCutoff(k, tv, cutoff) ==
  IF tv.err # "nil" THEN "delete"
  ELSE IF lrt[k] = None THEN "panic"
  ELSE IF lrt[k] <= cutoff THEN "delete"
  ELSE "send"

\* What the Range callback decides for key k holding tv: "delete", "send",
\* or "panic" when the key has no last-access stamp.
Verdict(k, tv, cutoff) ==
  IF tv.err # "nil" THEN "delete"
  ELSE IF lrt[k] = None THEN "panic"
  ELSE IF lrt[k] < cutoff THEN "delete"
  ELSE "send"

\* Range reaches key k and runs the callback up to its Delete or its send.
RangeVisit(k) ==
  /\ Retired
  /\ loop.pc = "range"
  /\ k \notin loop.visited
  /\ k \in loop.todo \/ cur[k] # 0
  /\ IF ~HasValue(k)
       THEN /\ loop' = [loop EXCEPT !.visited = @ \cup {k}]
            /\ chan' = chan
       ELSE LET d == Verdict(k, Entry(k).tv, loop.cutoff) IN
            /\ d = "send" => Len(chan) < ChanCap
            /\ loop' = [loop EXCEPT !.visited = @ \cup {k}, !.key = k,
                                    !.pc = IF d = "send" THEN "range"
                                           ELSE IF d = "delete" THEN "del" ELSE "panic"]
            /\ chan' = IF d = "send" THEN Append(chan, k) ELSE chan
  /\ UNCHANGED <<cfg, shut, cl, now, cur, ents, gcNext, chanClosed, refr, version>>
  /\ UNCHANGED CallerVars

\* The callback's c.cache.Delete(key).
RangeDelete ==
  /\ Retired
  /\ loop.pc = "del"
  /\ cur' = [cur EXCEPT ![loop.key] = 0]
  /\ ents' = Unmapped({loop.key})
  /\ loop' = [loop EXCEPT !.pc = "range"]
  /\ UNCHANGED <<cfg, shut, cl, now, gcNext, chan, chanClosed, refr, version>>
  /\ UNCHANGED CallerVars

\* Range has returned: close(toRefresh), then refresher.Wait().
RangeEnd ==
  /\ Retired
  /\ loop.pc = "range"
  /\ loop.todo \subseteq loop.visited
  /\ loop' = [loop EXCEPT !.pc = "wait"]
  /\ chanClosed' = TRUE
  /\ UNCHANGED <<cfg, shut, cl, now, cur, ents, gcNext, chan, refr, version>>
  /\ UNCHANGED CallerVars

\* The refresher goroutine takes the next key from the channel, or finds it
\* closed and drained and finishes.
RefresherRecv ==
  /\ Retired
  /\ refr.pc = "recv"
  /\ IF chan # <<>>
       THEN /\ refr' = [refr EXCEPT !.pc = "update", !.key = Head(chan)]
            /\ chan' = Tail(chan)
       ELSE /\ chanClosed
            /\ refr' = IdleRefr
            /\ chan' = chan
  /\ UNCHANGED <<cfg, shut, cl, now, cur, ents, gcNext, loop, chanClosed, version>>
  /\ UNCHANGED CallerVars

\* cache.Update(key): the entry is found or made, its gate taken and the
\* lookup started.
UpdateStart ==
  LET k == refr.key IN
  /\ Retired
  /\ refr.pc = "update"
  /\ ~Iterating
  /\ IF cur[k] = 0
       THEN /\ FreeSlots(k) # {}
            /\ LET s == LowestFree(k) IN
               /\ cur' = [cur EXCEPT ![k] = s]
               /\ ents' = [ents EXCEPT ![k][s] = [tv |-> NoTV, flight |-> "update"]]
               /\ refr' = [refr EXCEPT !.pc = "lookup", !.slot = s]
       ELSE /\ Entry(k).flight = "none"
            /\ cur' = cur
            /\ ents' = [ents EXCEPT ![k][cur[k]].flight = "update"]
            /\ refr' = [refr EXCEPT !.pc = "lookup", !.slot = cur[k]]
  /\ UNCHANGED <<cfg, shut, cl, now, gcNext, loop, chan, chanClosed, version>>
  /\ UNCHANGED CallerVars

\* The lookup of Update returns.
UpdateDone(o) ==
  /\ Retired
  /\ refr.pc = "lookup"
  /\ ents' = Landed(refr.key, refr.slot, o)
  /\ call' = Woken(refr.key, refr.slot, o)
  /\ refr' = [IdleRefr EXCEPT !.pc = "recv"]
  /\ UNCHANGED <<cfg, shut, cl, now, lrt, cur, gcNext, queries, hist, loop, chan, chanClosed, version>>

\* A refreshBefore that returns after close(toRefresh) without waiting for
\* the refresher.
RefreshEndUnwaited ==
  /\ Retired
  /\ loop.pc = "wait"
  /\ version' = IF loop.cause = "version" THEN loop.newver ELSE version
  /\ loop' = [IdleLoop EXCEPT !.armed = now]
  /\ UNCHANGED <<cfg, shut, cl, now, cur, ents, gcNext, chan, chanClosed, refr>>
  /\ UNCHANGED CallerVars

\* refresher.Wait() returns; refreshBasedOnVersion then records the version.
RefreshEnd ==
  /\ Retired
  /\ loop.pc = "wait"
  /\ refr.pc = "off"
  /\ version' = IF loop.cause = "version" THEN loop.newver ELSE version
  /\ loop' = [IdleLoop EXCEPT !.armed = now]
  /\ UNCHANGED <<cfg, shut, cl, now, cur, ents, gcNext, chan, chanClosed, refr>>
  /\ UNCHANGED CallerVars

\* -------------------------------------------------------------------- time

Tick ==
  /\ Retired
  /\ now < MaxTime
  /\ now' = now + 1
  /\ UNCHANGED <<cfg, shut, cl, lrt, cur, ents, call, gcNext, queries, hist>>
  /\ UNCHANGED LoopVars

Next ==
  \/ \E c \in Callers, k \in Keys : Stamp(c, k)
  \/ \E c \in Callers : Consult(c)
  \/ \E c \in Callers, o \in Outcomes(now) : LookupDone(c, o)
  \/ \E k \in Keys, s \in 1..Slots, o \in Outcomes(now) : AsyncDone(k, s, o)
  \/ \E c \in Callers : Return(c)
  \/ GC
  \/ VersionTick
  \/ \E r \in VersionReplies : PollDone(r)
  \/ StaleTick
  \/ \E k \in Keys : RangeVisit(k)
  \/ RangeDelete
  \/ RangeEnd
  \/ RefresherRecv
  \/ UpdateStart
  \/ \E o \in Outcomes(now) : UpdateDone(o)
  \/ RefreshEnd
  \/ Tick

Spec == Init /\ [][Next]_vars

\* ---------------------------------------------------------------- shutdown

CachingVars == <<cfg, now, lrt, cur, ents, call, chan, chanClosed, refr,
                 version, gcNext, queries, hist>>

\* CachingClient.Close, first statement: close(c.halt).
CloseStart ==
  /\ Retired
  /\ shut.pc = "idle"
  /\ shut' = [shut EXCEPT !.pc = "halting"]
  /\ UNCHANGED <<CachingVars, loop, cl>>

\* run(): case <-c.halt is taken; the loop blocks on closeError <- nil.
HaltChosen ==
  /\ Retired
  /\ loop.pc = "select"
  /\ shut.pc = "halting"
  /\ loop' = [loop EXCEPT !.pc = "ack"]
  /\ UNCHANGED <<CachingVars, shut, cl>>

\* A Close that does not wait for the loop's acknowledgement.
AckSkipped ==
  /\ Retired
  /\ shut.pc = "halting"
  /\ shut' = [shut EXCEPT !.pc = "closing", !.err = "nil"]
  /\ UNCHANGED <<CachingVars, loop, cl>>

\* err := <-c.closeError meets the loop's send; run() returns.
AckReceived ==
  /\ Retired
  /\ shut.pc = "halting"
  /\ loop.pc = "ack"
  /\ loop' = [loop EXCEPT !.pc = "exited"]
  /\ shut' = [shut EXCEPT !.pc = "closing", !.err = "nil"]
  /\ UNCHANGED <<CachingVars, cl>>

\* What a store's Close can return.
CloseErrors == {"nil", "closefail"}

\* cerr := c.cache.Close(); the first non-nil of err and cerr is returned.
\* lastRequestTimes is not closed.
CloseCache(cerr) ==
  /\ Retired
  /\ shut.pc = "closing"
  /\ shut' = [shut EXCEPT !.pc = "returned", !.cacheClosed = TRUE,
                          !.ret = IF shut.err = "nil" THEN cerr ELSE shut.err]
  /\ UNCHANGED <<CachingVars, loop, cl>>

\* cache.Query on the closed result cache: the store may still serve the call
\* (Consult), or refuse it, as here.
ConsultClosed(c) ==
  /\ Retired
  /\ call[c].pc = "stamped"
  /\ shut.cacheClosed
  /\ call' = [call EXCEPT ![c] = [@ EXCEPT !.pc = "done", !.how = "closed",
                                          !.res = [val |-> 0, err |-> "closed"]]]
  /\ UNCHANGED <<cfg, shut, cl, now, lrt, cur, ents, gcNext, queries, hist>>
  /\ UNCHANGED LoopVars

NextC ==
  \/ Next
  \/ CloseStart
  \/ HaltChosen
  \/ AckReceived
  \/ \E cerr \in CloseErrors : CloseCache(cerr)
  \/ \E c \in Callers : ConsultClosed(c)

SpecC == Init /\ [][NextC]_vars

\* ------------------------------------------------ Close, called again
\* The caching client with Close as in SpecC, and a second call of Close made
\* after the first has executed close(c.halt), while or after it runs.

\* The second Close, first statement: close(c.halt) on the closed channel is
\* a run-time panic ("close of closed channel") in the calling goroutine.
CloseAgain ==
  /\ Retired
  /\ shut.pc # "idle"
  /\ shut.again = "idle"
  /\ shut' = [shut EXCEPT !.again = "panicked"]
  /\ UNCHANGED <<CachingVars, loop, cl>>

NextCC ==
  \/ NextC
  \/ CloseAgain

SpecCC == Init /\ [][NextCC]_vars

\* ------------------------------------------------- the loop's two timers
\* run() with no caller: the select creates both timers anew on every
\* iteration, so the case taken is that of the timer with the shorter period
\* (either one when the periods are equal), or the halt case.  Instants are
\* not tracked: the clock stands for the moment the timers were created.

LongPeriod == 2 * Day

\* The Configurators for which NewQuerier builds a CachingClient, with short
\* periods, a period of one day and a period of two days.
RunConfigs ==
  {raw \in [ttl : {0, 3, LongPeriod}, tte : {0, 4}, cvp : {0, 1, Day, LongPeriod}] :
     raw.ttl > 0 \/ raw.tte > 0 \/ raw.cvp > 0}

RunInit ==
  /\ cfg \in {newCachingClient(raw) : raw \in RunConfigs}
  /\ now = 0
  /\ lrt = [k \in Keys |-> None]
  /\ cur = [k \in Keys |-> 0]
  /\ ents = [k \in Keys |-> [s \in 1..Slots |-> EmptyEntry]]
  /\ call = [c \in Callers |-> IdleCall]
  /\ loop = IdleLoop
  /\ chan = <<>>
  /\ chanClosed = FALSE
  /\ refr = IdleRefr
  /\ version = 0
  /\ gcNext = GCPeriodicity
  /\ queries = 0
  /\ hist = [k \in Keys |-> NoTV]
  /\ shut = IdleShut
  /\ cl = NoClient

\* case <-time.After(checkVersionPeriodicity) is the case taken.
VersionFires ==
  /\ loop.pc = "select"
  /\ Period(cfg.cvp) <= Period(cfg.stale)
  /\ loop' = [loop EXCEPT !.pc = "vcase"]
  /\ UNCHANGED <<CachingVars, shut, cl>>

\* The body of the version case.
VersionCase ==
  /\ loop.pc = "vcase"
  /\ IF cfg.cvp > 0
       THEN /\ loop' = [loop EXCEPT !.pc = "poll"]
            /\ UNCHANGED <<chan, chanClosed, refr>>
       ELSE Rearm
  /\ UNCHANGED <<cfg, shut, cl, now, cur, ents, gcNext, version>>
  /\ UNCHANGED CallerVars

\* case <-time.After(stale) is the case taken.
StaleFires ==
  /\ loop.pc = "select"
  /\ Period(cfg.stale) <= Period(cfg.cvp)
  /\ loop' = [loop EXCEPT !.pc = "scase"]
  /\ UNCHANGED <<CachingVars, shut, cl>>

\* A stale case that sweeps without looking at c.config.stale.
StaleCaseUnguarded ==
  /\ loop.pc = "scase"
  /\ BeginRefresh("stale", now - cfg.expiry, 0)
  /\ UNCHANGED <<cfg, shut, cl, now, cur, ents, gcNext, version>>
  /\ UNCHANGED CallerVars

\* The body of the stale case.
StaleCase ==
  /\ loop.pc = "scase"
  /\ IF cfg.stale > 0
       THEN BeginRefresh("stale", now - cfg.expiry, 0)
       ELSE Rearm
  /\ UNCHANGED <<cfg, shut, cl, now, cur, ents, gcNext, version>>
  /\ UNCHANGED CallerVars

RunNext ==
  \/ VersionFires
  \/ VersionCase
  \/ \E r \in VersionReplies : PollDone(r)
  \/ StaleFires
  \/ StaleCase
  \/ RangeEnd
  \/ RefresherRecv
  \/ RefreshEnd
  \/ CloseStart
  \/ HaltChosen
  \/ AckReceived
  \/ \E cerr \in CloseErrors : CloseCache(cerr)

RunSpec == RunInit /\ [][RunNext]_vars

\* The goroutines keep running, every %version query returns, time passes
\* (a timer that can fire first again and again does fire), and a select
\* with several cases ready picks among them at random.
RunFair ==
  /\ WF_vars(VersionCase)
  /\ WF_vars(\E r \in VersionReplies : PollDone(r))
  /\ WF_vars(StaleCase)
  /\ WF_vars(RangeEnd)
  /\ WF_vars(RefresherRecv)
  /\ WF_vars(RefreshEnd)
  /\ WF_vars(AckReceived)
  /\ WF_vars(\E cerr \in CloseErrors : CloseCache(cerr))
  /\ SF_vars(VersionFires)
  /\ SF_vars(StaleFires)
  /\ SF_vars(HaltChosen)

RunLive == RunSpec /\ RunFair

\* ------------------------------------------------ a sweep over many keys
\* refreshBefore on a result cache holding n keys, numbered 1..n, every one
\* with a list; either all of them were requested recently (the callback
\* sends each to the refresher) or all long ago (the callback deletes each).
\* Range visits the keys in the order of their numbers, one of the orders a
\* Go map can yield.  No caller is running; Close can be called at any time.

KeyCounts == {0, 1, ChanCap, ChanCap + 1, ChanCap + 2}

Demands == {"recent", "old"}

\* The result cache: the keys held, the last key Range has visited, the
\* Updates finished in the present sweep.
IdleStore(n, d) ==
  [pc |-> "store", n |-> n, demand |-> d, held |-> 1..n, at |-> 0, updated |-> 0]

SweepInit ==
  /\ cfg = newCachingClient([ttl |-> 3, tte |-> 4, cvp |-> 0])
  /\ now = 0
  /\ lrt = [k \in Keys |-> None]
  /\ cur = [k \in Keys |-> 0]
  /\ ents = [k \in Keys |-> [s \in 1..Slots |-> EmptyEntry]]
  /\ call = [c \in Callers |-> IdleCall]
  /\ loop = IdleLoop
  /\ chan = <<>>
  /\ chanClosed = FALSE
  /\ refr = IdleRefr
  /\ version = 0
  /\ gcNext = GCPeriodicity
  /\ queries = 0
  /\ hist = [k \in Keys |-> NoTV]
  /\ shut = IdleShut
  /\ cl \in {IdleStore(n, d) : n \in KeyCounts, d \in Demands}

\* The keys Range has still to visit.
Unvisited == {j \in cl.held : j > cl.at}

\* The next key Range visits.
NextKey == CHOOSE j \in Unvisited : \A i \in Unvisited : j <= i

\* case <-time.After(stale) with stale > 0: refreshBefore starts.
SweepTick ==
  /\ loop.pc = "select"
  /\ cfg.stale > 0
  /\ BeginRefresh("stale", now - cfg.expiry, 0)
  /\ cl' = [cl EXCEPT !.at = 0, !.updated = 0]
  /\ UNCHANGED <<cfg, shut, now, cur, ents, gcNext, version>>
  /\ UNCHANGED CallerVars

\* The callback on the next key: Delete for a key requested long ago, else
\* toRefresh <- key, which blocks while the channel is full.
SweepVisit ==
  /\ loop.pc = "range"
  /\ Unvisited # {}
  /\ IF cl.demand = "old"
       THEN /\ cl' = [cl EXCEPT !.held = @ \ {NextKey}, !.at = NextKey]
            /\ chan' = chan
       ELSE /\ Len(chan) < ChanCap
            /\ cl' = [cl EXCEPT !.at = NextKey]
            /\ chan' = Append(chan, NextKey)
  /\ UNCHANGED <<cfg, shut, now, cur, ents, gcNext, version, loop, chanClosed, refr>>
  /\ UNCHANGED CallerVars

\* Range has returned: close(toRefresh), then refresher.Wait().
SweepRangeEnd ==
  /\ loop.pc = "range"
  /\ Unvisited = {}
  /\ loop' = [loop EXCEPT !.pc = "wait"]
  /\ chanClosed' = TRUE
  /\ UNCHANGED <<cfg, shut, cl, now, cur, ents, gcNext, chan, refr, version>>
  /\ UNCHANGED CallerVars

\* cache.Update(key) waits for the iteration lock, then starts the lookup.
SweepUpdateStart ==
  /\ refr.pc = "update"
  /\ ~Iterating
  /\ refr' = [refr EXCEPT !.pc = "lookup"]
  /\ UNCHANGED <<cfg, shut, cl, now, cur, ents, gcNext, loop, chan, chanClosed, version>>
  /\ UNCHANGED CallerVars

\* The lookup of Update returns, with a list or an error.
SweepUpdateDone ==
  /\ refr.pc = "lookup"
  /\ refr' = [IdleRefr EXCEPT !.pc = "recv"]
  /\ cl' = [cl EXCEPT !.updated = @ + 1, !.held = @ \cup {refr.key}]
  /\ UNCHANGED <<cfg, shut, now, cur, ents, gcNext, loop, chan, chanClosed, version>>
  /\ UNCHANGED CallerVars

SweepNext ==
  \/ SweepTick
  \/ SweepVisit
  \/ SweepRangeEnd
  \/ RefresherRecv
  \/ SweepUpdateStart
  \/ SweepUpdateDone
  \/ RefreshEnd
  \/ CloseStart
  \/ HaltChosen
  \/ AckReceived
  \/ \E cerr \in CloseErrors : CloseCache(cerr)

SweepSpec == SweepInit /\ [][SweepNext]_vars

\* The loop, the Range and the refresher keep running when they can, every
\* lookup returns, the store's Close returns, and a select with the halt
\* case ready takes it sooner or later.
SweepFair ==
  /\ WF_vars(SweepVisit)
  /\ WF_vars(SweepRangeEnd)
  /\ WF_vars(RefresherRecv)
  /\ WF_vars(SweepUpdateStart)
  /\ WF_vars(SweepUpdateDone)
  /\ WF_vars(RefreshEnd)
  /\ WF_vars(AckReceived)
  /\ WF_vars(\E cerr \in CloseErrors : CloseCache(cerr))
  /\ SF_vars(HaltChosen)

SweepLive == SweepSpec /\ SweepFair

\* ------------------------------------------- values that never expire
\* The caching client in operation as in Spec, also built with TTE = 0 and
\* no version polling: refreshed by the stale sweep, never expired.

RawConfigsE == RawConfigs \cup {[ttl |-> 1, tte |-> 0, cvp |-> 0]}

InitE ==
  /\ cfg \in {newCachingClient(raw) : raw \in RawConfigsE}
  /\ now = 0
  /\ lrt = [k \in Keys |-> None]
  /\ cur = [k \in Keys |-> 0]
  /\ ents = [k \in Keys |-> [s \in 1..Slots |-> EmptyEntry]]
  /\ call = [c \in Callers |-> IdleCall]
  /\ loop = IdleLoop
  /\ chan = <<>>
  /\ chanClosed = FALSE
  /\ refr = IdleRefr
  /\ version = 0
  /\ gcNext = GCPeriodicity
  /\ queries = 0
  /\ hist = [k \in Keys |-> NoTV]
  /\ shut = IdleShut
  /\ cl = NoClient

SpecE == InitE /\ [][Next]_vars

\* ------------------------------------------- the stamp, in its two halves
\* lastRequestTimes.Store(expression, time.Now()) evaluates time.Now() and
\* then calls Store; the calling goroutine can be suspended between the two.
\* Stamp is the case in which it is not.

\* Caller c enters Query(k) and reads the clock; until the Store the instant
\* read is kept in the slot field of the call, which is not in use yet.
ReadClock(c, k) ==
  /\ Retired
  /\ call[c].pc = "idle"
  /\ queries < MaxQueries
  /\ queries' = queries + 1
  /\ call' = [call EXCEPT ![c] = [IdleCall EXCEPT !.pc = "clock", !.key = k,
                                                  !.slot = now]]
  /\ UNCHANGED <<cfg, shut, cl, now, lrt, cur, ents, gcNext, hist>>
  /\ UNCHANGED LoopVars

\* Caller c stores the instant it read.
StoreStamp(c) ==
  /\ Retired
  /\ call[c].pc = "clock"
  /\ lrt' = [lrt EXCEPT ![call[c].key] = call[c].slot]
  /\ call' = [call EXCEPT ![c] = [IdleCall EXCEPT !.pc = "stamped",
                                                  !.key = call[c].key]]
  /\ UNCHANGED <<cfg, shut, cl, now, cur, ents, gcNext, queries, hist>>
  /\ UNCHANGED LoopVars

NextS ==
  \/ Next
  \/ \E c \in Callers, k \in Keys : ReadClock(c, k)
  \/ \E c \in Callers : StoreStamp(c)

SpecS == Init /\ [][NextS]_vars

\* ------------------------------------------------------ the transport client
\* Client (src/querier.go 443-649): Query, getFromRangeServers and
\* getFromRangeServer.  One Query at a time; the steps are the points where
\* the code waits for the network: the HTTP round trip and the body scan.
\* retryPause only delays the next attempt and is not modelled.

defaultQueryLengthThreshold == 4096

\* Lengths of the full URI of the two kinds of expression that are queried.
URILengths == {64, 5000}

\* Classes of error http.Client.Get / putQuery can return, by what
\* makeRetryCallback tests: temporary or timeout; a DNS error that is neither;
\* any other (connection refused).
TransportErrors == {"timeout", "dns", "refused"}

StatusCodes == {200, 405, 414, 500}

\* Values of the RangeException header of a 200 response ("" when absent).
Headers == {"", "NOCLUSTER"}

Replies ==
  {[terr |-> e, code |-> 0, exc |-> ""] : e \in TransportErrors}
    \cup {[terr |-> "", code |-> 200, exc |-> x] : x \in Headers}
    \cup {[terr |-> "", code |-> c, exc |-> ""] : c \in StatusCodes \ {200}}

\* What the scan of the body and its Close report.
ScanOutcomes == {"ok", "scanerr", "closeerr"}

\* Response bodies: up to MaxBody bytes, each a letter, a space or a line
\* feed.
BodyChars == {"x", " ", "\n"}

Bodies == UNION {[1..n -> BodyChars] : n \in 0..MaxBody}

\* bufio.Scanner with the default split function: the lines of the body
\* without their line feed, and the unterminated rest if it is not empty.
RECURSIVE SplitFrom(_, _, _)
SplitFrom(body, i, line) ==
  IF i > Len(body) THEN (IF line = <<>> THEN <<>> ELSE <<line>>)
  ELSE IF body[i] = "\n" THEN <<line>> \o SplitFrom(body, i + 1, <<>>)
  ELSE SplitFrom(body, i + 1, Append(line, body[i]))

\* The list Client.Query builds: scanner.Text() of every line.
ScanLines(body) == SplitFrom(body, 1, <<>>)

NoErr == [kind |-> "nil", code |-> 0, msg |-> ""]
ErrStatusNotOK(code) == [kind |-> "status", code |-> code, msg |-> ""]
ErrRangeException(msg) == [kind |-> "range", code |-> 0, msg |-> msg]
ErrParseException == [kind |-> "parse", code |-> 0, msg |-> ""]
TransportError(e) == [kind |-> e, code |-> 0, msg |-> ""]

\* Configurations of NewQuerier: servers 1..n, RetryCount, and RetryCallback
\* either left nil ("default") or set to one that retries every error.
ClientConfigs ==
  { [n |-> 3, retryCount |-> 3, policy |-> "default"],
    [n |-> 1, retryCount |-> 1, policy |-> "default"],
    [n |-> 2, retryCount |-> 0, policy |-> "default"],
    [n |-> 2, retryCount |-> 1, policy |-> "always"] }

\* A callback that retries whatever the error.
RetryEverything(count, err) == TRUE

\* makeRetryCallback(count)(err).
makeRetryCallback(count, err) ==
  IF err.kind = "timeout" THEN TRUE
  ELSE IF err.kind = "dns" THEN count > 1
  ELSE FALSE

\* rq.retryCallback(err): NewQuerier installs makeRetryCallback(len(Servers))
\* when the configuration has none.
retryCallback(c, err) ==
  IF c.policy = "default" THEN makeRetryCallback(c.n, err) ELSE TRUE

\* roundRobinStrings.Next: the address at the counter, the counter advanced
\* modulo the number of addresses.
\* A counter that is never advanced.
PoolAdvanceStuck(rr, n) == rr

PoolServer(rr) == rr + 1
PoolAdvance(rr, n) == (rr + 1) % n

\* An attempt that starts with GET whatever the length.
InitialMethodGet(len) == "GET"

\* A try that keeps the method whatever the status.
NextMethodKept(method, code) == method

\* The method a server attempt starts with.
InitialMethod(len) ==
  IF len > defaultQueryLengthThreshold THEN "PUT" ELSE "GET"

\* The method of the next try after a response that is not a 200.
NextMethod(method, code) ==
  IF code = 414 THEN "PUT" ELSE IF code = 405 THEN "GET" ELSE method

IdleClient(k) ==
  [pc |-> "idle", n |-> k.n, retryCount |-> k.retryCount, policy |-> k.policy,
   rr |-> 0, len |-> 64, attempts |-> 0, triesRemaining |-> 0,
   method |-> "-", server |-> 0, herr |-> NoErr, log |-> <<>>, open |-> 0,
   res |-> NoErr, body |-> <<>>, lines |-> <<>>]

\* The plain Client is what NewQuerier returns when TTL, TTE and
\* CheckVersionPeriodicity are all zero: no cache, no background loop.
ClientInit ==
  /\ cfg = [ttl |-> 0, tte |-> 0, cvp |-> 0]
  /\ now = 0
  /\ lrt = [k \in Keys |-> None]
  /\ cur = [k \in Keys |-> 0]
  /\ ents = [k \in Keys |-> [s \in 1..Slots |-> EmptyEntry]]
  /\ call = [c \in Callers |-> IdleCall]
  /\ loop = IdleLoop
  /\ chan = <<>>
  /\ chanClosed = FALSE
  /\ refr = IdleRefr
  /\ version = 0
  /\ gcNext = 0
  /\ queries = 0
  /\ hist = [k \in Keys |-> NoTV]
  /\ shut = IdleShut
  /\ cl \in {IdleClient(k) : k \in ClientConfigs}

\* getFromRangeServer up to its first request: the server is taken from the
\* pool once, the method chosen from the URI length, two tries allowed.
BeginAttempt(c) ==
  [c EXCEPT !.pc = "http", !.server = PoolServer(c.rr),
            !.rr = PoolAdvance(c.rr, c.n), !.method = InitialMethod(c.len),
            !.triesRemaining = 2, !.herr = NoErr]

\* The stop test taken one attempt too late.
GiveUpLate(c, err) == c.attempts > c.retryCount \/ ~retryCallback(c, err)

\* getFromRangeServers' test to stop after an attempt that returned err.
GiveUp(c, err) == c.attempts = c.retryCount \/ ~retryCallback(c, err)

\* getFromRangeServers after an attempt that returned err # nil.
EndAttempt(c, err) ==
  IF GiveUp(c, err)
    THEN [c EXCEPT !.pc = "done", !.res = err]
    ELSE BeginAttempt([c EXCEPT !.attempts = @ + 1])

\* Client.Query is called.
ClientQuery(len) ==
  /\ cl.pc = "idle"
  /\ cl' = BeginAttempt([cl EXCEPT !.len = len, !.attempts = 0, !.log = <<>>,
                                   !.open = 0, !.res = NoErr])
  /\ UNCHANGED <<CachingVars, loop, shut>>

\* One HTTP round trip of getFromRangeServer ends with reply r, and the code
\* runs on to the next request or to the end of the fetch.
Respond(r) ==
  /\ cl.pc = "http"
  /\ LET sent == [cl EXCEPT !.log = Append(@, [att |-> cl.attempts,
                                                server |-> cl.server,
                                                method |-> cl.method,
                                                terr |-> r.terr,
                                                code |-> r.code,
                                                exc |-> r.exc])]
         got == [sent EXCEPT !.open = @ + 1]
         herr == ErrStatusNotOK(r.code)
         again == [got EXCEPT !.herr = herr,
                              !.method = NextMethod(cl.method, r.code),
                              !.triesRemaining = @ - 1]
     IN  cl' = IF r.terr # ""
                 THEN EndAttempt(sent, TransportError(r.terr))
               ELSE IF r.code = 200
                 THEN IF r.exc # ""
                        THEN EndAttempt(got, ErrRangeException(r.exc))
                        ELSE [got EXCEPT !.pc = "scan"]
               ELSE IF again.triesRemaining > 0
                 THEN again
                 ELSE EndAttempt(again, herr)
  /\ UNCHANGED <<CachingVars, loop, shut>>

\* Client.Query reads the body to its end and closes it; a scan that fails
\* yields no list.
Scan(o, body) ==
  /\ cl.pc = "scan"
  /\ o # "ok" => body = <<>>
  /\ cl' = [cl EXCEPT !.pc = "done", !.open = @ - 1,
                      !.res = IF o = "ok" THEN NoErr ELSE ErrParseException,
                      !.body = body,
                      !.lines = IF o = "ok" THEN ScanLines(body) ELSE <<>>]
  /\ UNCHANGED <<CachingVars, loop, shut>>

\* The caller has the result; the pool keeps its counter.
ClientReturn ==
  /\ cl.pc = "done"
  /\ cl' = [IdleClient(cl) EXCEPT !.rr = cl.rr]
  /\ UNCHANGED <<CachingVars, loop, shut>>

ClientNext ==
  \/ \E len \in URILengths : ClientQuery(len)
  \/ \E r \in Replies : Respond(r)
  \/ \E o \in ScanOutcomes, body \in Bodies : Scan(o, body)
  \/ ClientReturn

ClientSpec == ClientInit /\ [][ClientNext]_vars

\* ------------------------------------------------------- the server pool
\* The pool of a Client (rq.servers) used by concurrent callers: every call
\* of Next is one atomic step on the counter.  picks is the order in which
\* the calls took effect.

PoolSizes == {k.n : k \in ClientConfigs}

IdlePool(n) == [pc |-> "pool", n |-> n, rr |-> 0, picks |-> <<>>]

PoolInit ==
  /\ cfg = [ttl |-> 0, tte |-> 0, cvp |-> 0]
  /\ now = 0
  /\ lrt = [k \in Keys |-> None]
  /\ cur = [k \in Keys |-> 0]
  /\ ents = [k \in Keys |-> [s \in 1..Slots |-> EmptyEntry]]
  /\ call = [c \in Callers |-> IdleCall]
  /\ loop = IdleLoop
  /\ chan = <<>>
  /\ chanClosed = FALSE
  /\ refr = IdleRefr
  /\ version = 0
  /\ gcNext = 0
  /\ queries = 0
  /\ hist = [k \in Keys |-> NoTV]
  /\ shut = IdleShut
  /\ cl \in {IdlePool(n) : n \in PoolSizes}

\* Caller c's getFromRangeServer calls rq.servers.Next().
ServersNext(c) ==
  /\ cl.pc = "pool"
  /\ Len(cl.picks) < MaxPicks
  /\ cl' = [cl EXCEPT !.rr = PoolAdvance(cl.rr, cl.n),
                      !.picks = Append(@, [by |-> c,
                                           server |-> PoolServer(cl.rr)])]
  /\ UNCHANGED <<CachingVars, loop, shut>>

PoolNext == \E c \in Callers : ServersNext(c)

PoolSpec == PoolInit /\ [][PoolNext]_vars

\* ------------------------------------------------------------ MultiQuery
\* MultiQuery(querier, queries): one goroutine per expression, each calling
\* querier.Query; an error goes into the atomic.Value wgErr, a list into the
\* map results under resultsLock; after wg.Wait() the caller returns the
\* stored error or the keys of the map.

\* The concrete types of the errors a Query returns.
ErrorTypes == {"ErrStatusNotOK", "ErrRangeException"}

MultiLines == {"a", "b"}

\* The lists a Query can return: any lines, repeated or not.
LineLists == UNION {[1..n -> MultiLines] : n \in 0..2}

QueryOutcomes ==
  {[err |-> t, lines |-> <<>>] : t \in ErrorTypes}
    \cup {[err |-> "nil", lines |-> l] : l \in LineLists}

NoOutcome == [err |-> "-", lines |-> <<>>]

IdleMulti(n) ==
  [pc |-> "multi", n |-> n,
   g |-> [i \in 1..n |-> [pc |-> "query", out |-> NoOutcome]],
   results |-> {}, wgErr |-> "unset", ret |-> NoOutcome]

MultiInit ==
  /\ cfg = [ttl |-> 0, tte |-> 0, cvp |-> 0]
  /\ now = 0
  /\ lrt = [k \in Keys |-> None]
  /\ cur = [k \in Keys |-> 0]
  /\ ents = [k \in Keys |-> [s \in 1..Slots |-> EmptyEntry]]
  /\ call = [c \in Callers |-> IdleCall]
  /\ loop = IdleLoop
  /\ chan = <<>>
  /\ chanClosed = FALSE
  /\ refr = IdleRefr
  /\ version = 0
  /\ gcNext = 0
  /\ queries = 0
  /\ hist = [k \in Keys |-> NoTV]
  /\ shut = IdleShut
  /\ cl \in {IdleMulti(n) : n \in 0..MaxExprs}

\* lines, err := querier.Query(query) returns in goroutine i.
GoQuery(i, o) ==
  /\ cl.pc = "multi"
  /\ i \in 1..cl.n
  /\ cl.g[i].pc = "query"
  /\ cl' = [cl EXCEPT !.g[i] = [pc |-> IF o.err = "nil" THEN "merge" ELSE "store",
                                out |-> o]]
  /\ UNCHANGED <<CachingVars, loop, shut>>

\* atomic.Value.Store(v): the first Store fixes the concrete type; a Store of
\* a value of another concrete type panics.
StoreAccepts(held, t) == held = "unset" \/ held = t

\* wgErr.Store(err) in goroutine i; a panic in a goroutine ends the program.
GoStore(i) ==
  /\ cl.pc = "multi"
  /\ i \in 1..cl.n
  /\ cl.g[i].pc = "store"
  /\ IF StoreAccepts(cl.wgErr, cl.g[i].out.err)
       THEN cl' = [cl EXCEPT !.wgErr = cl.g[i].out.err, !.g[i].pc = "done"]
       ELSE cl' = [cl EXCEPT !.pc = "panicked", !.g[i].pc = "panicked"]
  /\ UNCHANGED <<CachingVars, loop, shut>>

\* Under resultsLock goroutine i adds its lines to the map.
GoMerge(i) ==
  /\ cl.pc = "multi"
  /\ i \in 1..cl.n
  /\ cl.g[i].pc = "merge"
  /\ cl' = [cl EXCEPT !.results = @ \cup {cl.g[i].out.lines[j] :
                                            j \in 1..Len(cl.g[i].out.lines)},
                      !.g[i].pc = "done"]
  /\ UNCHANGED <<CachingVars, loop, shut>>

\* The slices a range over the keys of the map can build: every key once, in
\* any order.
KeysOf(set) ==
  {f \in [1..Cardinality(set) -> set] : \A x \in set : \E j \in DOMAIN f : f[j] = x}

\* wg.Wait() has returned: the stored error with a nil slice, or the keys of
\* the map with a nil error.
MultiReturn(values) ==
  /\ cl.pc = "multi"
  /\ \A i \in 1..cl.n : cl.g[i].pc = "done"
  /\ values \in KeysOf(cl.results)
  /\ cl' = [cl EXCEPT !.pc = "returned",
                      !.ret = IF cl.wgErr # "unset"
                                THEN [err |-> cl.wgErr, lines |-> <<>>]
                                ELSE [err |-> "nil", lines |-> values]]
  /\ UNCHANGED <<CachingVars, loop, shut>>

MultiNext ==
  \/ \E i \in 1..MaxExprs, o \in QueryOutcomes : GoQuery(i, o)
  \/ \E i \in 1..MaxExprs : GoStore(i)
  \/ \E i \in 1..MaxExprs : GoMerge(i)
  \/ \E values \in UNION {[1..n -> MultiLines] : n \in 0..Cardinality(MultiLines)} :
       MultiReturn(values)

MultiSpec == MultiInit /\ [][MultiNext]_vars

\* ------------------------------------------------------------ NewQuerier
\* NewQuerier applied to a Configurator: the number of servers, RetryCount,
\* RetryPause, TTL, TTE and CheckVersionPeriodicity (durations in minutes).

ServerCounts == {0, 1, 2}
RetryCounts == {-1, 0, 1}
RetryPauses == {-1, 0, 1}
TTLs == {-1, 0, 3}
TTEs == {-1, 0, 4}
Periodicities == {-1, 0, 1}

Configurators ==
  [servers : ServerCounts, retryCount : RetryCounts, retryPause : RetryPauses,
   ttl : TTLs, tte : TTEs, cvp : Periodicities]

\* A validation that looks at the server list only.
ConfigErrorServersOnly(k) == IF k.servers = 0 THEN "servers" ELSE ""

\* The field NewQuerier rejects the Configurator for, "" when it accepts it.
ConfigError(k) ==
  IF k.servers = 0 THEN "servers"
  ELSE IF k.retryCount < 0 THEN "RetryCount"
  ELSE IF k.retryPause < 0 THEN "RetryPause"
  ELSE IF k.cvp < 0 THEN "CheckVersionPeriodicity"
  ELSE IF k.ttl < 0 THEN "TTL"
  ELSE IF k.tte < 0 THEN "TTE"
  ELSE ""

\* NewQuerier returns the Client itself when nothing is to be cached.
IsPlain(k) == k.cvp = 0 /\ k.tte = 0 /\ k.ttl = 0

\* No CachingClient exists: run was never started.
NoLoop == [IdleLoop EXCEPT !.pc = "unstarted"]

ConstructInit ==
  /\ cfg = [ttl |-> 0, tte |-> 0, cvp |-> 0]
  /\ now = 0
  /\ lrt = [k \in Keys |-> None]
  /\ cur = [k \in Keys |-> 0]
  /\ ents = [k \in Keys |-> [s \in 1..Slots |-> EmptyEntry]]
  /\ call = [c \in Callers |-> IdleCall]
  /\ loop = NoLoop
  /\ chan = <<>>
  /\ chanClosed = FALSE
  /\ refr = IdleRefr
  /\ version = 0
  /\ gcNext = 0
  /\ queries = 0
  /\ hist = [k \in Keys |-> NoTV]
  /\ shut = IdleShut
  /\ cl \in {[pc |-> "config", in |-> k, err |-> ""] : k \in Configurators}

\* NewQuerier(config) returns an error and nothing else.
NewQuerierFails ==
  /\ cl.pc = "config"
  /\ ConfigError(cl.in) # ""
  /\ cl' = [cl EXCEPT !.pc = "failed", !.err = ConfigError(cl.in)]
  /\ UNCHANGED <<CachingVars, loop, shut>>

\* NewQuerier(config) returns the plain Client.
NewQuerierPlain ==
  /\ cl.pc = "config"
  /\ ConfigError(cl.in) = ""
  /\ IsPlain(cl.in)
  /\ cl' = [cl EXCEPT !.pc = "plain"]
  /\ UNCHANGED <<CachingVars, loop, shut>>

\* NewQuerier(config) returns newCachingClient's CachingClient, whose run
\* goroutine is started.
NewQuerierCaching ==
  /\ cl.pc = "config"
  /\ ConfigError(cl.in) = ""
  /\ ~IsPlain(cl.in)
  /\ cl' = [cl EXCEPT !.pc = "caching"]
  /\ cfg' = newCachingClient([ttl |-> cl.in.ttl, tte |-> cl.in.tte,
                              cvp |-> cl.in.cvp])
  /\ gcNext' = GCPeriodicity'
  /\ loop' = IdleLoop
  /\ UNCHANGED <<now, lrt, cur, ents, call, chan, chanClosed, refr, version,
                 queries, hist, shut>>

ConstructNext == NewQuerierFails \/ NewQuerierPlain \/ NewQuerierCaching

ConstructSpec == ConstructInit /\ [][ConstructNext]_vars

\* ------------------------------------------------------------------ claims

Missing(c) == call[c].pc \in {"lookup", "wait", "done"} /\ call[c].arr = "none"

\* C1: callers whose Query of the same key found no stored value while the
\* others were still waiting are attached to one and the same lookup: at most
\* one of them started it, it is running for as long as they wait, and they
\* all return together with the same list or the same error.
C1_SingleFlightOnMiss ==
  \A c1, c2 \in Callers :
    (c1 # c2 /\ Missing(c1) /\ Missing(c2) /\ call[c1].key = call[c2].key)
      => /\ call[c1].slot = call[c2].slot
         /\ ~(call[c1].how = "own" /\ call[c2].how = "own")
         /\ (call[c1].pc = "done") <=> (call[c2].pc = "done")
         /\ call[c1].pc = "done" => call[c1].res = call[c2].res
         /\ call[c1].pc # "done"
              => ents[call[c1].key][call[c1].slot].flight # "none"

C1_Witness ==
  \E c1, c2 \in Callers :
    /\ c1 # c2 /\ Missing(c1) /\ Missing(c2)
    /\ call[c1].key = call[c2].key
    /\ call[c1].pc = "done" /\ call[c2].pc = "done"
    /\ call[c1].how = "own" /\ call[c2].how = "shared"
    /\ call[c1].res.err = "nil" /\ call[c2].res = call[c1].res

\* C2: in every reachable state at most one upstream lookup is in flight for
\* a cache key.
C2_OneLookupPerKey == \A k \in Keys : InFlight(k) <= 1

\* Caller c's Query consults the result cache in this step.
Consulting(c) == call[c].pc = "stamped" /\ call'[c].pc # "stamped"

\* Instant t lies before a deadline; a zero deadline is never reached.
Ahead(t, deadline) == deadline = 0 \/ t < deadline

\* The step starts no upstream lookup and leaves the result cache as it is.
NoUpstream == ents' = ents /\ cur' = cur

\* C3 as stated: once a Query of q has stored a list, every further Query of q
\* consulting the cache before the stale instant of that entry returns that
\* same list and starts no upstream lookup.
C3_SameListSinceStored ==
  [][\A c \in Callers :
       LET h == hist[call[c].key] IN
       (Consulting(c) /\ h.err = "nil" /\ Ahead(now, h.stale))
         => /\ call'[c].pc = "done"
            /\ call'[c].res = [val |-> h.val, err |-> "nil"]
            /\ NoUpstream]_vars

\* C3 amended: a Query of q that consults the cache while it holds a list for
\* q that is neither stale nor expired returns that list and starts no
\* upstream lookup.
C3_FreshEntryServed ==
  [][\A c \in Callers :
       LET k == call[c].key IN
       (/\ Consulting(c)
        /\ cur[k] # 0
        /\ Entry(k).tv.err = "nil"
        /\ Ahead(now, Entry(k).tv.stale)
        /\ Ahead(now, Entry(k).tv.expiry))
         => /\ call'[c].pc = "done"
            /\ call'[c].res = [val |-> Entry(k).tv.val, err |-> "nil"]
            /\ NoUpstream]_vars

C3_Witness ==
  \E c \in Callers :
    /\ call[c].pc = "done" /\ call[c].arr = "fresh" /\ call[c].how = "cache"
    /\ call[c].res.err = "nil"
    /\ call[c].res.val = Entry(call[c].key).tv.val
    /\ call[c].res.val <= now

\* Stale-while-revalidate configuration: ttl = T > 0, tte = E > T, no polling.
TTLMode == cfg.cvp = 0 /\ cfg.ttl > 0 /\ cfg.expiry > cfg.ttl

\* The instant the upstream lookup behind a stored list returned.
FetchedAt(tv) == tv.val - 1

\* Instant now lies in [stale_at, expiry_at) of the stored entry tv: for a list,
\* T after it was fetched and less than E after; for a range exception, the
\* instants stored with it.
InStaleWindow(tv) ==
  IF tv.err = "nil"
    THEN now >= FetchedAt(tv) + cfg.ttl /\ now < FetchedAt(tv) + cfg.expiry
    ELSE tv.err = "range" /\ now >= tv.stale /\ now < tv.expiry

\* The entries a lookup returning at instant t stores.
GoodAt(t) == [val |-> t + 1, err |-> "nil",
              stale |-> t + cfg.stale, expiry |-> t + cfg.expiry]
BadAt(t) == [val |-> 0, err |-> "range",
             stale |-> t + BadStaleDuration, expiry |-> t + BadExpiryDuration]

\* A Query consulting in the stale window is served the stored value at once,
\* and a refresh of the key is in flight afterwards: the one this call
\* started, or the one already running.
StaleServed(c) ==
  LET k == call[c].key
      s == cur[k]
      e == ents[k][s]
  IN
  (Consulting(c) /\ TTLMode /\ s # 0 /\ InStaleWindow(e.tv))
    => /\ call'[c].pc = "done"
       /\ call'[c].res = QueryReturn(e.tv.val, e.tv.err)
       /\ cur' = cur
       /\ ents'[k][s].tv = e.tv
       /\ ents'[k][s].flight = IF e.flight = "none" THEN "async" ELSE e.flight
       /\ call'[c].trig = (e.flight = "none")

\* The background refetch running on slot s of key k ends in this step.
RefetchEnds(k, s) == ents[k][s].flight = "async" /\ ents'[k][s].flight = "none"

\* A Query consulting before T has elapsed since the fetch a Query stored
\* starts no upstream lookup.
QuietBeforeT(c) ==
  LET h == hist[call[c].key] IN
  (Consulting(c) /\ TTLMode /\ h.err = "nil" /\ now < FetchedAt(h) + cfg.ttl)
    => call'[c].pc = "done" /\ NoUpstream

\* A Query consulting while the cache holds a list fetched less than T ago
\* starts no upstream lookup.
QuietWhileFresh(c) ==
  LET k == call[c].key IN
  (/\ Consulting(c) /\ TTLMode /\ cur[k] # 0
   /\ Entry(k).tv.err = "nil"
   /\ now < FetchedAt(Entry(k).tv) + cfg.ttl)
    => call'[c].pc = "done" /\ NoUpstream

\* C4 as stated: with ttl = T > 0, tte = E > T and no version polling, a Query
\* in [stale_at, expiry_at) returns the stored value without waiting and
\* triggers a background refetch (unless one is in flight) whose result
\* replaces the stored entry; a Query before T has elapsed since the fetch
\* issues no upstream request.
C4_RefetchReplaces ==
  [][/\ \A c \in Callers : StaleServed(c) /\ QuietBeforeT(c)
     /\ \A k \in Keys : \A s \in 1..Slots :
          (TTLMode /\ RefetchEnds(k, s))
            => /\ cur'[k] = s
               /\ ents'[k][s].tv \in {GoodAt(now), BadAt(now)}]_vars

\* C4 amended: as above, but the refetch's result replaces the stored entry
\* only when it is a list or a range exception and the entry is still in the
\* cache; after any other error the stored entry stays as it was, and the
\* result of a refetch whose entry was removed meanwhile is dropped.  A Query
\* issues no upstream request before T has elapsed since the fetch of the
\* list the cache holds when the Query consults it.
C4_StaleWhileRevalidate ==
  [][/\ \A c \in Callers : StaleServed(c) /\ QuietWhileFresh(c)
     /\ \A k \in Keys : \A s \in 1..Slots :
          (TTLMode /\ RefetchEnds(k, s))
            => /\ cur' = cur
               /\ IF cur[k] = s
                    THEN ents'[k][s].tv \in {ents[k][s].tv, GoodAt(now), BadAt(now)}
                    ELSE /\ ents'[k][s] = EmptyEntry
                         /\ cur[k] # 0 => ents'[k][cur[k]] = ents[k][cur[k]]]_vars

C4_Witness ==
  \E c \in Callers :
    LET k == call[c].key IN
    /\ TTLMode
    /\ call[c].pc = "done" /\ call[c].arr = "stale" /\ call[c].trig
    /\ call[c].res.err = "nil"
    /\ now >= FetchedAt(call[c].res) + cfg.ttl
    /\ cur[k] # 0 /\ Entry(k).flight = "async"
    /\ Entry(k).tv.val = call[c].res.val

\* Instant now is at or after expiry_at of the stored entry tv: for a list, E
\* after it was fetched; for a range exception, the instant stored with it.
AtOrAfterExpiry(tv) ==
  IF tv.err = "nil"
    THEN cfg.expiry > 0 /\ now >= FetchedAt(tv) + cfg.expiry
    ELSE tv.err = "range" /\ now >= tv.expiry

\* Caller c's blocking Query returns in this step.
Returning(c) == call[c].pc \in {"lookup", "wait"} /\ call'[c].pc = "done"

\* What a Query returns when its upstream lookup returns at instant t.
LookupOutcomes(t) ==
  {[val |-> t + 1, err |-> "nil"]} \cup [val : {0}, err : {"range"} \cup NonSemantic]

\* C5: a Query that consults the cache at or after expiry_at of the stored
\* entry is not served that entry: it blocks on an upstream lookup (its own,
\* or the one already running for the key), and what it returns is the
\* outcome of the lookup that ends when it returns, never the stored value.
C5_ExpiredIsMiss ==
  [][\A c \in Callers :
       LET k == call[c].key
           s == cur[k]
       IN
       /\ (Consulting(c) /\ s # 0 /\ ents[k][s].tv # NoTV
             /\ AtOrAfterExpiry(ents[k][s].tv))
            => /\ call'[c].pc \in {"lookup", "wait"}
               /\ call'[c].arr = "expired"
               /\ call'[c].slot = s
               /\ cur' = cur
               /\ ents'[k][s].flight # "none"
               /\ ents[k][s].flight = "none"
                    => ents'[k][s].flight = "sync" /\ call'[c].pc = "lookup"
       /\ (Returning(c) /\ call[c].arr = "expired")
            => /\ call'[c].res \in LookupOutcomes(now)
               /\ ents[k][call[c].slot].flight # "none"
               /\ ents'[k][call[c].slot].flight = "none"]_vars

C5_Witness ==
  \E c \in Callers :
    /\ call[c].pc = "done" /\ call[c].arr = "expired" /\ call[c].how = "own"
    /\ call[c].res = [val |-> now + 1, err |-> "nil"]
    /\ cfg.expiry > 0 /\ now >= cfg.expiry

\* No stored entry holds a non-semantic error.
NoneStored == \A k \in Keys : \A s \in 1..Slots : ents[k][s].tv.err \notin NonSemantic

RangeStored ==
  /\ \A k \in Keys : \A s \in 1..Slots :
       (ents'[k][s].tv # ents[k][s].tv /\ ents'[k][s].tv.err = "range")
         => ents'[k][s].tv = BadAt(now)
  /\ \A c \in Callers :
       LET k == call[c].key
           s == call[c].slot
       IN
       (Returning(c) /\ call'[c].res.err = "range")
         => /\ call'[c].res.val = 0
            /\ cur[k] = s => ents'[k][s] = [tv |-> BadAt(now), flight |-> "none"]

\* C7 as stated: a range exception from upstream at instant t is stored as
\* (nil, the exception, t + 1 minute, t + 5 minutes), and every Query
\* consulting before t + 1 minute returns that error without an upstream
\* request.
C7_SameErrorForAMinute ==
  [][/\ RangeStored
     /\ \A c \in Callers :
          LET h == hist[call[c].key] IN
          (Consulting(c) /\ h.err = "range" /\ now < h.stale)
            => /\ call'[c].pc = "done"
               /\ call'[c].res = [val |-> 0, err |-> "range"]
               /\ NoUpstream]_vars

\* C7 amended: a range exception from upstream at instant t is stored as
\* (nil, the exception, t + 1 minute, t + 5 minutes), and every Query that
\* consults the cache before t + 1 minute while that entry is still in it
\* returns that error without an upstream request.
C7_RangeExceptionCached ==
  [][/\ RangeStored
     /\ \A c \in Callers :
          LET k == call[c].key IN
          (Consulting(c) /\ cur[k] # 0 /\ Entry(k).tv.err = "range"
             /\ now < Entry(k).tv.stale)
            => /\ call'[c].pc = "done"
               /\ call'[c].res = [val |-> 0, err |-> "range"]
               /\ NoUpstream]_vars

C7_Witness ==
  \E c \in Callers :
    LET k == call[c].key IN
    /\ call[c].pc = "done" /\ call[c].how = "cache" /\ call[c].arr = "fresh"
    /\ call[c].res = [val |-> 0, err |-> "range"]
    /\ cur[k] # 0
    /\ Entry(k).tv.err = "range" /\ now < Entry(k).tv.stale
    /\ Entry(k).tv.expiry = Entry(k).tv.stale + BadExpiryDuration - BadStaleDuration

\* refreshBefore, called for a version advance, is iterating the cache.
VersionRange == loop.pc = "range" /\ loop.cause = "version"

\* Range's callback runs for key k in this step.
Visiting(k) == loop.pc = "range" /\ k \notin loop.visited /\ k \in loop'.visited

\* The callback is about to delete key k / has queued key k for Update.
Deleting(k) == loop'.pc = "del" /\ loop'.key = k /\ chan' = chan
Queued(k) == loop'.pc = "range" /\ chan' = Append(chan, k)

C9_RefreshWithinTTLOfVersion ==
  [][\A k \in Keys :
       (/\ VersionRange /\ Visiting(k) /\ HasValue(k)
        /\ cfg.ttl > 0 /\ Entry(k).tv.err = "nil")
         => IF lrt[k] >= loop.newver - cfg.ttl THEN Queued(k) ELSE Deleting(k)]_vars

\* C10: every key in the result cache has a last-access stamp, and the read
\* of it in refreshBefore never panics.
C10_NoDemandLeak ==
  /\ \A k \in Keys : cur[k] # 0 => lrt[k] # None
  /\ loop.pc # "panic"

C10_Witness ==
  \E k \in Keys :
    /\ HasValue(k) /\ Entry(k).tv.err = "nil"
    /\ loop.pc = "range" /\ k \in loop.visited
    /\ chan = <<k>>
    /\ lrt[k] # None

\* Close has received the loop's acknowledgement.
Acknowledged == shut.pc \in {"closing", "returned"}

\* C11: Close signals halt and proceeds only on the loop's acknowledgement,
\* which the loop gives at its select and then exits; from then on no version
\* poll, sweep, refreshBefore Delete or Update is running, and after Close
\* has returned none is started.
C11_LoopExitedAfterClose ==
  [][/\ (shut.pc = "idle" /\ shut'.pc # "idle") => shut'.pc = "halting"
     /\ (shut.pc = "halting" /\ shut'.pc # "halting")
          => loop.pc = "ack" /\ loop'.pc = "exited"
     /\ (loop.pc # "ack" /\ loop'.pc = "ack")
          => loop.pc = "select" /\ shut.pc = "halting"
     /\ Acknowledged'
          => /\ loop'.pc = "exited"
             /\ refr'.pc = "off"
             /\ chan' = <<>>
     /\ Acknowledged => UNCHANGED LoopVars]_vars

C11_Witness ==
  /\ shut.pc = "returned"
  /\ loop.pc = "exited"
  /\ version > 0
  /\ \E k \in Keys : HasValue(k)

\* C12: when Close has returned, both stores are closed and its result is
\* the first non-nil error of the acknowledgement and the store closes.
C12_BothStoresClosed ==
  shut.pc = "returned"
    => /\ shut.cacheClosed
       /\ shut.lrtClosed
       /\ shut.err # "nil" => shut.ret = shut.err

ServerErrors == TransportErrors \cup {"status"}

\* The requests of the current Query that were sent in attempt a.
RequestsOf(a) == SelectSeq(cl.log, LAMBDA e : e.att = a)

\* C14: with several servers, retryCount > 0 and the default retry policy, a
\* Query does not return a transport error or an ErrStatusNotOK while retries
\* remain: such an error sends the Query to the next server of the rotation.
C14_FailoverOnServerError ==
  (/\ cl.pc = "done"
   /\ cl.policy = "default"
   /\ cl.n > 1
   /\ cl.retryCount > 0
   /\ cl.res.kind \in ServerErrors)
    => cl.attempts = cl.retryCount

\* C15: within one attempt a second request follows only a 414 or a 405, so
\* a server that answers with another status gets one request in the attempt.
C15_SecondRequestOnlyAfterFallback ==
  cl.pc # "idle" =>
    \A i \in 1..(Len(cl.log) - 1) :
      cl.log[i].att = cl.log[i + 1].att => cl.log[i].code \in {405, 414}

\* What getFromRangeServer returns for a logged request when it is the last
\* of its attempt.
ReplyErr(e) ==
  IF e.terr # "" THEN TransportError(e.terr)
  ELSE IF e.code = 200
    THEN (IF e.exc # "" THEN ErrRangeException(e.exc) ELSE NoErr)
  ELSE ErrStatusNotOK(e.code)

\* The step receives the reply to a request of the current Query.
Answered == cl.pc = "http" /\ Len(cl'.log) = Len(cl.log) + 1

Answer == cl'.log[Len(cl'.log)]

Retried == cl'.attempts = cl.attempts + 1

\* C16: a Query makes at most retryCount + 1 server attempts; its fetch
\* returns after the first attempt without error, after an attempt whose
\* error the retry predicate rejects, or once retryCount retries have been
\* made; otherwise it retries on the next server of the pool.
C16_RetryBound ==
  [][/\ cl'.attempts <= cl'.retryCount
     /\ cl'.attempts # cl.attempts => Answered \/ cl'.pc = "idle"
     /\ Answered =>
          /\ Retried =>
               /\ ReplyErr(Answer) # NoErr
               /\ cl.attempts < cl.retryCount
               /\ retryCallback(cl, ReplyErr(Answer))
               /\ cl'.pc = "http"
               /\ cl'.server = (cl.server % cl.n) + 1
          /\ cl'.pc = "scan" <=> ReplyErr(Answer) = NoErr
          /\ cl'.pc = "done" =>
               /\ ReplyErr(Answer) # NoErr
               /\ cl'.res = ReplyErr(Answer)
               /\ cl.attempts = cl.retryCount \/ ~retryCallback(cl, ReplyErr(Answer))
          /\ (cl'.pc = "http" /\ ~Retried) =>
               /\ ReplyErr(Answer).kind = "status"
               /\ cl.triesRemaining = 2
               /\ cl'.server = cl.server
               /\ cl'.attempts = cl.attempts]_vars

\* A Query gave up after retryCount retries that went round the three servers.
C16_Witness ==
  /\ cl.pc = "done"
  /\ cl.n = 3
  /\ cl.retryCount = 3
  /\ cl.attempts = 3
  /\ cl.res.kind = "timeout"
  /\ Len(cl.log) = 4
  /\ \A i \in 1..4 : cl.log[i].server = ((i - 1) % 3) + 1 /\ cl.log[i].att = i - 1

\* Request i of the log is the first of its attempt.
FirstOfAttempt(i) == i = 1 \/ cl.log[i - 1].att # cl.log[i].att

\* Requests i and i + 1 of the log belong to the same attempt.
SameAttempt(i) == cl.log[i].att = cl.log[i + 1].att

MethodsOK ==
  /\ \A i \in 1..Len(cl.log) :
       FirstOfAttempt(i) =>
         cl.log[i].method = (IF cl.len > defaultQueryLengthThreshold THEN "PUT" ELSE "GET")
  /\ \A a \in 0..cl.attempts : Len(RequestsOf(a)) <= 2
  /\ \A i \in 1..(Len(cl.log) - 1) :
       SameAttempt(i) =>
         /\ cl.log[i + 1].server = cl.log[i].server
         /\ cl.log[i + 1].method # cl.log[i].method =>
              \/ /\ cl.log[i].method = "GET"
                 /\ cl.log[i].code = 414
                 /\ cl.log[i + 1].method = "PUT"
              \/ /\ cl.log[i].method = "PUT"
                 /\ cl.log[i].code = 405
                 /\ cl.log[i + 1].method = "GET"

\* C17: a server attempt starts with PUT if the URI is longer than 4096 bytes
\* and with GET otherwise, sends at most two requests, both to one server,
\* changes method only GET->PUT after a 414 or PUT->GET after a 405, and
\* after two tries without a 200 ends with ErrStatusNotOK of the last response.
C17_MethodFallback ==
  [][/\ cl'.pc # "idle" => MethodsOK'
     /\ (/\ Answered
         /\ cl.triesRemaining = 1
         /\ Answer.terr = ""
         /\ Answer.code # 200) =>
          /\ Len(cl.log) > 0
          /\ cl.log[Len(cl.log)].att = Answer.att
          /\ cl.log[Len(cl.log)].code # 200
          /\ IF GiveUp(cl, ErrStatusNotOK(Answer.code))
               THEN cl'.pc = "done" /\ cl'.res = ErrStatusNotOK(Answer.code)
               ELSE Retried /\ cl'.triesRemaining = 2]_vars

\* A GET answered 414 was re-sent by PUT, answered 405, and the Query
\* returned ErrStatusNotOK 405; another Query of a long URI started by PUT.
C17_Witness ==
  /\ cl.pc = "done"
  /\ cl.len <= defaultQueryLengthThreshold
  /\ Len(cl.log) = 2
  /\ cl.log[1].method = "GET" /\ cl.log[1].code = 414
  /\ cl.log[2].method = "PUT" /\ cl.log[2].code = 405
  /\ cl.log[2].server = cl.log[1].server
  /\ cl.res = ErrStatusNotOK(405)

\* C18: the GET/PUT fallback stays inside the attempt and leaves the retry
\* count alone; with retryCount = 0 a long URI goes by PUT first, a 405 makes
\* the same attempt re-send it by GET to the same server, and a 200 to that
\* GET ends the fetch without error.
C18_FallbackInsideAttempt ==
  [][Answered =>
       /\ (/\ cl.triesRemaining = 2
           /\ Answer.terr = ""
           /\ Answer.code \in {405, 414}) =>
            /\ cl'.pc = "http"
            /\ cl'.method = (IF Answer.code = 405 THEN "GET" ELSE "PUT")
            /\ cl'.attempts = cl.attempts
            /\ cl'.server = cl.server
            /\ cl'.rr = cl.rr
       /\ (cl.retryCount = 0 /\ cl.len > defaultQueryLengthThreshold) =>
            /\ Len(cl.log) = 0 => Answer.method = "PUT"
            /\ (Len(cl.log) = 0 /\ Answer.terr = "" /\ Answer.code = 405) =>
                 /\ cl'.pc = "http"
                 /\ cl'.method = "GET"
                 /\ cl'.server = cl.server
                 /\ cl'.attempts = 0
            /\ (/\ Len(cl.log) = 1
                /\ cl.log[1].code = 405
                /\ Answer.terr = ""
                /\ Answer.code = 200
                /\ Answer.exc = "") =>
                 /\ Answer.method = "GET"
                 /\ Answer.server = cl.log[1].server
                 /\ Answer.att = 0
                 /\ cl'.pc = "scan"]_vars

\* With retryCount = 0 a long query was answered 405 to its PUT and 200 to
\* its GET, and the Query returned the list.
C18_Witness ==
  /\ cl.pc = "done"
  /\ cl.retryCount = 0
  /\ cl.len > defaultQueryLengthThreshold
  /\ Len(cl.log) = 2
  /\ cl.log[1].method = "PUT" /\ cl.log[1].code = 405
  /\ cl.log[2].method = "GET" /\ cl.log[2].code = 200
  /\ cl.log[2].server = cl.log[1].server
  /\ cl.attempts = 0
  /\ cl.res = NoErr

C20_BodiesClosedOnReturn == cl.pc = "done" => cl.open = 0

\* ---- server pool claims (PoolSpec)

\* How many of the selections i .. j went to server s.
Selected(s, i, j) == Cardinality({x \in i..j : cl.picks[x].server = s})

Negative(k) ==
  \/ k.retryCount < 0
  \/ k.retryPause < 0
  \/ k.ttl < 0
  \/ k.tte < 0
  \/ k.cvp < 0

\* C22: NewQuerier fails, returning no client and starting no background
\* loop, when the server list is empty or any of RetryCount, RetryPause, TTL,
\* TTE or CheckVersionPeriodicity is negative.
C22_BadConfigRejected ==
  [][(cl.pc = "config" /\ (cl.in.servers = 0 \/ Negative(cl.in))) =>
       /\ cl'.pc = "failed"
       /\ cl'.err # ""
       /\ loop' = NoLoop
       /\ UNCHANGED <<CachingVars, shut>>]_vars

\* A Configurator with servers, whose only fault is a negative TTE, was
\* rejected.
C22_Witness ==
  /\ cl.pc = "failed"
  /\ cl.in.servers > 0
  /\ cl.in.tte < 0
  /\ cl.in.retryCount >= 0 /\ cl.in.retryPause >= 0
  /\ cl.in.ttl >= 0 /\ cl.in.cvp >= 0
  /\ loop = NoLoop

\* NewQuerier hands newCachingClient's durations to the store as configured,
\* except that version polling forces stale to 0 and a zero expiry to 4h.
ConstructedAsConfigured ==
  cl.pc = "caching" =>
    /\ cl.in.cvp > 0 =>
         /\ cfg.stale = 0
         /\ cfg.expiry = (IF cl.in.tte = 0 THEN FourHours ELSE cl.in.tte)
    /\ cl.in.cvp = 0 => cfg.stale = cl.in.ttl /\ cfg.expiry = cl.in.tte
    /\ gcNext = (IF cfg.expiry > 0 THEN cfg.expiry ELSE 0)
    /\ loop = IdleLoop

\* ---- claims about values that never expire (SpecE)

\* The store holds, in the map, something for key k in slot s.
Mapped(k, s) == cur[k] = s /\ ents[k][s].tv # NoTV

\* The durations the client was built with, and the rhythm of the cache GC.
BuiltForVersioning ==
  /\ cfg.cvp > 0 =>
       /\ cfg.stale = 0
       /\ GoodStaleDuration = 0
       /\ cfg.expiry = (IF cfg.tte = 0 THEN FourHours ELSE cfg.tte)
  /\ GoodExpiryDuration = cfg.expiry
  /\ IF cfg.expiry > 0
       THEN gcNext > 0 /\ gcNext % cfg.expiry = 0
       ELSE gcNext = 0

SweepRunning == loop.pc # "select" /\ loop.cause = "stale"

C24_NilCallbackRetriesAll ==
  (/\ cl.pc = "done"
   /\ cl.policy = "default"
   /\ cl.res.kind \notin {"nil", "parse"})
    => cl.attempts = cl.retryCount

\* ---- further claims about values that never expire (SpecE)

\* C25: with TTE = 0 (and no version polling) a list in the result cache is
\* never removed from it because time has passed: once cached, the key keeps
\* a value in the cache, whatever the stale tick does.
C25_NeverRemovedWithoutTTE ==
  [][\A k \in Keys :
       (/\ cfg.tte = 0
        /\ cfg.cvp = 0
        /\ HasValue(k)
        /\ Entry(k).tv.err = "nil") => HasValue(k)']_vars

\* ---- further claims about the background loop (Spec)

\* refreshBasedOnVersion is between the reply to its poll and its return.
VersionRefresh == loop.pc \in {"range", "del", "wait"} /\ loop.cause = "version"

\* C26: the last known version starts at zero and never decreases; it changes
\* only at the end of a version check whose poll returned a strictly greater
\* value, and becomes that value; a poll returning an equal or smaller value
\* starts no refreshBefore and changes nothing.
C26_VersionMonotonic ==
  /\ version = 0
  /\ [][/\ version' >= version
        /\ version' # version =>
             /\ loop.pc = "wait"
             /\ loop.cause = "version"
             /\ loop.newver > version
             /\ version' = loop.newver
        /\ (VersionRefresh /\ loop'.pc = "select") => version' = loop.newver
        /\ VersionRefresh => loop.newver > version
        /\ (loop.pc = "poll" /\ loop'.pc # "poll") =>
             /\ version' = version
             /\ \/ loop'.pc = "range" /\ loop'.cause = "version"
                  /\ loop'.newver \in Versions /\ loop'.newver > version
                \/ loop'.pc = "select" /\ UNCHANGED <<cur, ents, lrt, refr, chan>>
        /\ (loop.pc = "poll" /\ \A v \in Versions : v <= version) =>
             loop'.pc \in {"poll", "select"}]_vars

\* Version 2 is known and the check that found version 4 is about to record it.
C26_Witness ==
  /\ version = 2
  /\ loop.pc = "wait"
  /\ loop.cause = "version"
  /\ loop.newver = 4

\* A line without its leading and trailing spaces.
RECURSIVE TrimLeft(_)
TrimLeft(line) ==
  IF line # <<>> /\ Head(line) = " " THEN TrimLeft(Tail(line)) ELSE line

RECURSIVE TrimRight(_)
TrimRight(line) ==
  IF line # <<>> /\ line[Len(line)] = " "
    THEN TrimRight(SubSeq(line, 1, Len(line) - 1))
    ELSE line

TrimSpace(line) == TrimRight(TrimLeft(line))

\* C27: every string of a Query result is a line of the response body
\* without its leading and trailing whitespace, in body order.
C27_LinesTrimmed ==
  (cl.pc = "done" /\ cl.res = NoErr) =>
    /\ Len(cl.lines) = Len(ScanLines(cl.body))
    /\ \A i \in 1..Len(cl.lines) : cl.lines[i] = TrimSpace(ScanLines(cl.body)[i])

\* ---- claims about the last-access map (SpecS)

\* C28: for every key the instant in the last-access map never moves
\* backwards, also when Query calls for the key run concurrently.
C28_StampNeverMovesBack ==
  [][\A k \in Keys : lrt'[k] >= lrt[k]]_vars

\* ---- further claims about the background loop (Spec)

\* Replies to the %version query that are an error, have no line or more than
\* one, or whose line is no number.
FailedReplies ==
  {r \in VersionReplies : r.err \/ Len(r.lines) # 1 \/ ~r.lines[1].num}

\* C29: a version poll that fails (error, line count other than one, line
\* that is no integer) leaves the known version, the result cache and the
\* last-access map as they were, and no key is deleted or refreshed.
C29_FailedPollChangesNothing ==
  [][\A r \in FailedReplies :
       (loop.pc = "poll" /\ PollDone(r)) =>
         /\ loop'.pc = "select"
         /\ UNCHANGED <<version, cur, ents, lrt, refr, chan, chanClosed>>]_vars

\* Every poll so far has failed, the last one just now, with a list in the
\* cache.
C29_Witness ==
  /\ cfg.cvp > 0
  /\ version = 0
  /\ loop.pc = "select"
  /\ now >= 1
  /\ loop.armed = now
  /\ \E k \in Keys : HasValue(k) /\ lrt[k] # None

\* ---- further shutdown claims (SpecC)

\* Caller c is blocked on the lookup the refresher's Update is running.
OnRefresherLookup(c) ==
  /\ call[c].pc \in {"lookup", "wait"}
  /\ call[c].key = refr.key
  /\ call[c].slot = refr.slot

\* C30: the background loop runs from construction until Close and ends for
\* no other reason; an error of a version poll or of a refresh lookup reaches
\* neither a caller that is not waiting for that lookup nor Close, and the
\* loop goes on: back to its select with the timers set, or on to the next
\* key of the refresh.
C30_LoopRunsUntilClose ==
  /\ loop.pc = "select"
  /\ [][/\ loop'.pc # "panic"
        /\ (loop'.pc \in {"ack", "exited"} /\ loop.pc \notin {"ack", "exited"}) =>
             /\ loop.pc = "select"
             /\ loop'.pc = "ack"
             /\ shut.pc = "halting"
        /\ shut'.err \in {"-", "nil"}
        /\ \A r \in FailedReplies :
             (loop.pc = "poll" /\ PollDone(r)) =>
               /\ loop'.pc = "select"
               /\ loop'.armed = now
               /\ UNCHANGED <<call, shut>>
        /\ \A o \in Outcomes(now) :
             (o.kind # "ok" /\ UpdateDone(o)) =>
               /\ refr'.pc = "recv"
               /\ UNCHANGED <<loop, shut>>
               /\ \A c \in Callers : ~OnRefresherLookup(c) => call'[c] = call[c]]_vars

\* After a poll that failed the loop has sent the next one, and Close has
\* not been called.
C30_Witness ==
  /\ cfg.cvp > 0
  /\ version = 0
  /\ loop.pc = "poll"
  /\ loop.armed >= 1
  /\ shut.pc = "idle"

\* C30 as stated: as above, and the error of a refresh lookup reaches no
\* caller at all.
C30_NoCallerSeesRefreshError ==
  /\ loop.pc = "select"
  /\ [][/\ loop'.pc # "panic"
        /\ (loop'.pc \in {"ack", "exited"} /\ loop.pc \notin {"ack", "exited"}) =>
             /\ loop.pc = "select"
             /\ loop'.pc = "ack"
             /\ shut.pc = "halting"
        /\ shut'.err \in {"-", "nil"}
        /\ \A r \in FailedReplies :
             (loop.pc = "poll" /\ PollDone(r)) =>
               /\ loop'.pc = "select"
               /\ loop'.armed = now
               /\ UNCHANGED <<call, shut>>
        /\ \A o \in Outcomes(now) :
             (o.kind # "ok" /\ UpdateDone(o)) =>
               /\ refr'.pc = "recv"
               /\ UNCHANGED <<loop, shut, call>>]_vars

\* ---- claims about the loop and the last-access map (Spec)

\* The step is caller c's stamp of key k at the present instant.
StampOf(c, k) ==
  /\ call[c].pc = "idle"
  /\ call'[c].pc = "stamped"
  /\ call'[c].key = k
  /\ lrt'[k] = now

\* C31: the version poll goes to the Client directly: sending it and
\* receiving its reply create or change no cache entry and write no
\* last-access stamp; the last-access map is written only by a caller's
\* Query, for the key it asks for.
C31_PollBypassesCache ==
  [][/\ (loop.pc = "select" /\ loop'.pc = "poll") =>
          UNCHANGED <<cur, ents, lrt, hist>>
     /\ (loop.pc = "poll" /\ loop'.pc # "poll") =>
          UNCHANGED <<cur, ents, lrt, hist>>
     /\ \A k \in Keys :
          lrt'[k] # lrt[k] => \E c \in Callers : StampOf(c, k)]_vars

\* A version poll is under way while the cache holds a list last requested
\* at an earlier instant.
C31_Witness ==
  /\ loop.pc = "poll"
  /\ \E k \in Keys : HasValue(k) /\ lrt[k] # None /\ lrt[k] < now

\* How many times key k is in the work channel or in the refresher's hands.
Pending(k) ==
  Cardinality({i \in 1..Len(chan) : chan[i] = k})
    + (IF refr.pc \in {"update", "lookup"} /\ refr.key = k THEN 1 ELSE 0)

\* The step is the Range callback's decision on key k, which holds a value
\* and has a last-access stamp.
Decided(k) ==
  /\ loop.pc = "range"
  /\ k \notin loop.visited
  /\ k \in loop'.visited
  /\ HasValue(k)
  /\ lrt[k] # None

\* C32: a stale tick with stale > 0 starts refreshBefore(now - expiry); in
\* that sweep the callback deletes every key whose value is an error and
\* every other key last requested before the cutoff, and sends every
\* remaining key to the refresher, once; the refresher calls Update once for
\* each key it receives; no key is both deleted and refreshed by one sweep.
C32_SweepDecides ==
  /\ [](\A k \in Keys :
          /\ Pending(k) <= 1
          /\ (loop.pc = "del" /\ loop.key = k) => Pending(k) = 0)
  /\ [][/\ (loop.pc = "select" /\ loop'.pc = "range") =>
             /\ cfg.stale > 0
             /\ loop'.cause = "stale"
             /\ loop'.cutoff = now - cfg.expiry
             /\ loop'.visited = {}
        /\ \A k \in Keys :
             (loop.cause = "stale" /\ Decided(k)) =>
               IF Entry(k).tv.err # "nil" \/ lrt[k] < loop.cutoff
                 THEN loop'.pc = "del" /\ loop'.key = k /\ chan' = chan
                 ELSE loop'.pc = "range" /\ chan' = Append(chan, k)
        /\ (loop.pc = "del" /\ loop' # loop) =>
             /\ cur'[loop.key] = 0
             /\ loop'.pc = "range"
             /\ loop'.visited = loop.visited
        /\ (loop.pc = "range" /\ loop'.pc \in {"range", "del", "wait"}) =>
             loop.visited \subseteq loop'.visited
        /\ chan' # chan =>
             \/ chan' = <<>> /\ loop'.visited = {}
             \/ chan # <<>> /\ chan' = Tail(chan) /\ refr.pc = "recv"
                  /\ refr'.pc = "update" /\ refr'.key = Head(chan)
             \/ \E k \in Keys : chan' = Append(chan, k) /\ Decided(k)
        /\ (refr.pc = "update" /\ refr' # refr) =>
             refr'.pc = "lookup" /\ refr'.key = refr.key
        /\ (refr.pc = "lookup" /\ refr' # refr) => refr'.pc = "recv"]_vars

\* In a sweep started by a stale tick the refresher's one Update of a key
\* the callback sent is running.
C32_Witness ==
  /\ loop.cause = "stale"
  /\ loop.pc = "wait"
  /\ refr.pc = "lookup"
  /\ refr.key \in loop.visited
  /\ chan = <<>>

\* C33: in every refreshBefore the work channel is closed once, and only
\* after Range has visited all keys; nothing is sent on it after the close;
\* refreshBefore returns only after the refresher has drained the channel and
\* finished its last Update.
C33_CloseThenDrain ==
  /\ [](/\ chanClosed => loop.pc \notin {"range", "del", "panic"}
        /\ loop.pc = "wait" => chanClosed)
  /\ [][/\ (~chanClosed /\ chanClosed') =>
             /\ loop.pc = "range"
             /\ loop.todo \subseteq loop.visited
             /\ loop'.pc = "wait"
             /\ chan' = chan
        /\ (chanClosed /\ ~chanClosed') =>
             loop'.pc = "range" /\ loop'.visited = {} /\ chan' = <<>>
        /\ chanClosed' => Len(chan') <= Len(chan)
        /\ (loop.pc = "wait" /\ loop'.pc # "wait") =>
             /\ chanClosed
             /\ chan = <<>>
             /\ refr.pc = "off"
             /\ refr' = refr]_vars

\* The channel has been closed and refreshBefore is waiting while the
\* refresher's Update of a key sent before the close is running.
C33_Witness ==
  /\ chanClosed
  /\ loop.pc = "wait"
  /\ loop.todo \subseteq loop.visited
  /\ refr.pc = "lookup"

\* ---- claims about Close called more than once (SpecCC)

\* C34: whatever the sequence of calls, Close called again or concurrently
\* included, every close(c.halt) finds the halt channel open, so that the
\* channel is closed once and no call of Close panics; the loop sends one
\* completion signal, which the first Close receives.
C34_HaltClosedOnce ==
  /\ shut.again # "panicked"
  /\ loop.pc = "exited" => shut.pc \in {"closing", "returned"}

\* The second Close has panicked on the closed halt channel while the first
\* is still waiting for the loop's acknowledgement.
C34_SecondClosePanics ==
  /\ shut.again = "panicked"
  /\ shut.pc = "halting"

\* C37: a sweep never deletes a key that holds a list and whose last request
\* is not before the cutoff at the moment the Delete takes effect: a Query
\* that stamps the key before the Delete saves it.
C37_NoCheckThenDeleteRace ==
  [][(loop.pc = "del" /\ loop'.pc # "del" /\ HasValue(loop.key)
        /\ Entry(loop.key).tv.err = "nil") =>
       lrt[loop.key] < loop.cutoff]_vars

\* The callback has decided to delete a key holding a list, and a Query has
\* since stamped the key at or after the cutoff; the Delete is still to come.
C37_StampedBeforeDelete ==
  /\ loop.pc = "del"
  /\ HasValue(loop.key)
  /\ Entry(loop.key).tv.err = "nil"
  /\ lrt[loop.key] >= loop.cutoff

\* ---- claims about MultiQuery (MultiSpec)

\* The goroutines of the call that ended in an error.
Failed == {i \in 1..cl.n : cl.g[i].out.err \notin {"nil", "-"}}

\* The lines of all the lists returned to the goroutines.
AllLines ==
  UNION {{cl.g[i].out.lines[j] : j \in 1..Len(cl.g[i].out.lines)} : i \in 1..cl.n}

\* What MultiQuery returns once every Query has returned: with no failure the
\* set union of the lines, each once; with a failure no list and the error of
\* one of the failed queries.
C39_ReturnsUnionOrError ==
  cl.pc = "returned" =>
    IF Failed = {}
      THEN /\ cl.ret.err = "nil"
           /\ Len(cl.ret.lines) = Cardinality(AllLines)
           /\ {cl.ret.lines[j] : j \in 1..Len(cl.ret.lines)} = AllLines
      ELSE /\ cl.ret.lines = <<>>
           /\ \E i \in Failed : cl.ret.err = cl.g[i].out.err

\* C39: MultiQuery runs one Query per expression in parallel and waits for
\* all; it never panics, whatever the kinds of the errors, two queries
\* failing with errors of different concrete types included; it returns the
\* set union of the lines when all succeed, and no list and one of the errors
\* when any fails.
C39_MultiQueryNeverPanics ==
  /\ cl.pc # "panicked"
  /\ C39_ReturnsUnionOrError

\* Two queries have failed with errors of different concrete types and the
\* second wgErr.Store has panicked.
C39_StorePanics ==
  /\ cl.pc = "panicked"
  /\ \E i, j \in Failed : cl.g[i].out.err # cl.g[j].out.err

\* ---- claims about the loop's timers (RunSpec, RunLive)

\* C35: a disabled feature never acts: with checkVersionPeriodicity = 0 no
\* %version query is ever sent and with stale = 0 no stale sweep is ever
\* started, although the case of the 24 hour timer that stands for the
\* disabled feature is taken.
C35_DisabledNeverActs ==
  [][/\ cfg.cvp = 0 => loop'.pc # "poll"
     /\ cfg.stale = 0 => ~(loop'.pc = "range" /\ loop'.cause = "stale")
     /\ (loop.pc = "vcase" /\ cfg.cvp = 0 /\ loop' # loop) => loop' = IdleLoop
     /\ (loop.pc = "scase" /\ cfg.stale = 0 /\ loop' # loop) => loop' = IdleLoop]_vars

\* The stale case has been taken in a client built with stale = 0.
C35_Witness ==
  /\ loop.pc = "scase"
  /\ cfg.stale = 0

\* The version case has been taken in a client built without version polling.
C35_VersionWitness ==
  /\ loop.pc = "vcase"
  /\ cfg.cvp = 0

\* C38: an enabled periodic action is never starved: as long as Close is not
\* called, with checkVersionPeriodicity > 0 a version poll is made again and
\* again, and with stale > 0 a stale sweep is started again and again,
\* whatever the period of the other timer.
C38_EnabledActionRecurs ==
  /\ []<>(cfg.cvp > 0 => loop.pc = "poll" \/ shut.pc # "idle")
  /\ []<>(cfg.stale > 0 =>
            (loop.pc = "range" /\ loop.cause = "stale") \/ shut.pc # "idle")

\* The same for the periods of at most one day.
C38_ShortPeriodsRecur ==
  /\ []<>((cfg.cvp > 0 /\ cfg.cvp <= Day) => loop.pc = "poll" \/ shut.pc # "idle")
  /\ []<>((cfg.stale > 0 /\ cfg.stale <= Day) =>
            (loop.pc = "range" /\ loop.cause = "stale") \/ shut.pc # "idle")

\* ---- claims about a sweep over many keys (SweepSpec, SweepLive)

\* The Range callback is blocked sending to the full channel.
SendBlocked ==
  /\ loop.pc = "range"
  /\ Unvisited # {}
  /\ cl.demand = "recent"
  /\ Len(chan) = ChanCap

\* The refresher is blocked in Update, waiting for the iteration lock.
UpdateBlocked ==
  /\ refr.pc = "update"
  /\ Iterating

\* C36: refreshBefore never deadlocks, for any number of keys, more than the
\* 64 of the channel's capacity included: the Range callback blocked on the
\* full channel and the refresher blocked in Update never wait on each other.
C36_NoMutualWait == ~(SendBlocked /\ UpdateBlocked)

\* With at most ChanCap + 1 keys the two never wait on each other.
C36_FewKeysNoMutualWait == cl.n <= ChanCap + 1 => ~(SendBlocked /\ UpdateBlocked)

\* C40: Close eventually returns: called while a refresh is in progress it
\* waits for the refresh to end, the loop then takes the halt case and
\* acknowledges, and Close returns.
C40_CloseReturns == (shut.pc = "halting") ~> (shut.pc = "returned")

\* The same when at most ChanCap + 1 keys are held.
C40_CloseReturnsFewKeys ==
  (shut.pc = "halting" /\ cl.n <= ChanCap + 1) ~> (shut.pc = "returned")

\* Close has been called in the middle of a sweep.
C40_ClosedDuringRefresh ==
  /\ shut.pc = "halting"
  /\ loop.pc \in {"range", "wait"}
  /\ refr.pc \in {"update", "lookup"}

=========================================================================
